---- MODULE Spec2Model ----
(***************************************************************************)
(* Fact store of rust-callgraphs: the code that database-dsl/generator.rs  *)
(* emits for a schema (interning tables, relations, counters, the          *)
(* registration functions and Tables::merge), instantiated on a reduced    *)
(* schema that has one declaration of every shape the generator            *)
(* distinguishes:                                                          *)
(*                                                                         *)
(*   custom_id CrateHash                                                   *)
(*   inc_id BasicBlock { NO_BLOCK = 0 }        (one reserved constant)     *)
(*   inc_id Statement  { }                     (no reserved constant)      *)
(*   intern strings<String as InternedString>;          (scalar, leaf)     *)
(*   intern names<InternedString as Name>;     (scalar over another key)   *)
(*   intern def_paths<(Name, CrateHash) as DefPath>;    (tuple valued)     *)
(*   enum BasicBlockKind                                                   *)
(*   relation basic_blocks(basic_block: BasicBlock,                        *)
(*                         mir: DefPath, kind: BasicBlockKind);            *)
(*   relation statements(auto stmt: Statement,                             *)
(*                       basic_block: BasicBlock, kind: Name);             *)
(*                                                                         *)
(* Per-unit Tables are filled by registration calls and then merged, each  *)
(* once, into the corpus.                                                  *)
(***************************************************************************)
EXTENDS Integers, Sequences, FiniteSets, TLC

\* ------------------------------------------------------------------ bounds
\* Total number of registration / fresh-id calls over all units.
MaxOps == 3
\* Number of intern calls in the single-table specification SpecIntern.
MaxInterns == 4
\* Number of fresh-id calls and merges in the specification SpecOverflow.
MaxLimitOps == 3
\* Number of units merged into the Tables that SpecStorage saves and loads.
MaxStoreOps == 2
\* Number of merges in the specification SpecRepeat.
MaxRepeats == 3
\* Number of intern calls in the specification SpecWide.
MaxWideInterns == 3

\* ------------------------------------------------------- schema and inputs
\* Width in bits of the integer type backing every id (u8, the narrowest
\* type is_numeric_type admits).
IdBits == 8
Modulus == 2 ^ IdBits
TypMax == Modulus - 1

\* The compilation units whose stores are built independently.
Units == {"A", "B"}
\* Values handed to the registration functions. The strings of the two units
\* overlap in one value and differ in the other.
Strings == {"foo", "bar", "baz"}
UnitStrings == [A |-> {"foo", "bar"}, B |-> {"bar", "baz"}]
CrateHashes == {"h1", "h2"}
BasicBlockKinds == {"Entry", "Regular"}

\* schema.interning_tables, in declaration order.
SchemaTables == <<"strings", "names", "def_paths">>
\* schema.incremental_ids as counter field names (IncrementalId::get_field_name).
IncrementalIds == {"basicblocks", "statements"}
\* id.constants.len() for every incremental id.
constant_count == [basicblocks |-> 1, statements |-> 0]
\* The declared constant NO_BLOCK of BasicBlock.
NO_BLOCK == 0
\* schema.relations.
RelationNames == {"basic_blocks", "statements"}
\* Columns of each relation that hold an incremental id, with the id's counter.
IncColumns ==
    [basic_blocks |-> {<<1, "basicblocks">>},
     statements   |-> {<<1, "statements">>, <<2, "basicblocks">>}]

\* ---------------------------------------------------------------- id types
\* impl From<usize> for #name: `value as #typ` keeps the low IdBits bits.
FromUsize(value) == value % Modulus
\* impl Into<usize> for #name / #name::index.
index(id) == id
\* Faulty variant of checked_add: the sum is reduced to the width of the type.
wrapping_add(a, b) == <<(a + b) % Modulus>>

\* #typ::checked_add: None (<<>>) when the sum does not fit the type,
\* Some(sum) (<<sum>>) otherwise.
checked_add(a, b) == IF a + b > TypMax THEN <<>> ELSE <<a + b>>

\* #name::shift: `self.0.checked_add(offset).expect("Overflow!")`. The panic
\* is the guard shift_overflows of the caller; shift is the value returned
\* when there is none.
shift_overflows(id, offset) == checked_add(id, offset) = <<>>
shift(id, offset) == checked_add(id, offset)[1]

Range(s) == {s[i] : i \in 1..Len(s)}

\* --------------------------------------------------------- InterningTable
\* Faulty variant of intern: the value is pushed without looking it up.
intern_push(contents, value) ==
    [table |-> Append(contents, value), key |-> FromUsize(Len(contents))]

\* InterningTable::intern: the key of an equal stored value, otherwise the
\* value is pushed and gets the key `contents.len()`.
intern(contents, value) ==
    IF \E i \in 1..Len(contents) : contents[i] = value
    THEN [table |-> contents,
          key   |-> FromUsize((CHOOSE i \in 1..Len(contents) : contents[i] = value) - 1)]
    ELSE [table |-> Append(contents, value),
          key   |-> FromUsize(Len(contents))]

\* Faulty variant of IntoVec: the keys are counted from one.
IntoVec_from_one(contents) == [i \in 1..Len(contents) |-> <<FromUsize(i), contents[i]>>]

\* Into<Vec<(K, V)>> for InterningTable: enumerate the contents, key = index.
IntoVec(contents) == [i \in 1..Len(contents) |-> <<FromUsize(i - 1), contents[i]>>]

\* The value stored under a key.
lookup(contents, key) == contents[index(key) + 1]

\* Relation::insert: unconditional push.
insert(facts, tuple) == Append(facts, tuple)

\* ------------------------------------------------------------------ Tables
\* Counters::default: every counter starts at the number of constants.
get_default_value(id) == constant_count[id]

DefaultTables ==
    [relations        |-> [basic_blocks |-> <<>>, statements |-> <<>>],
     counters         |-> [id \in IncrementalIds |-> get_default_value(id)],
     interning_tables |-> [strings |-> <<>>, names |-> <<>>, def_paths |-> <<>>]]

\* Faulty variant of get_fresh: the counter is handed out and left as it was.
get_fresh_no_increment(t, id) == [tables |-> t, ret |-> t.counters[id]]

\* Counters::get_fresh_<id>: return the counter, then increment it (`+= 1`
\* on the backing type, written here as a build without overflow checks
\* computes it).
get_fresh(t, id) ==
    [tables |-> [t EXCEPT !.counters[id] = (@ + 1) % Modulus],
     ret    |-> t.counters[id]]

\* `self.<field> += 1` does not fit the backing type.
get_fresh_overflows(t, id) == t.counters[id] + 1 > TypMax

\* Counters::get_no_block: the constant's literal, whatever the state.
get_no_block(t) == NO_BLOCK

\* -------------------------------------------------- registration functions
\* Faulty variant of intern_name: the key of the string is pushed into names
\* without looking it up.
intern_name_push(t, value_2) ==
    LET value_1 == intern(t.interning_tables.strings, value_2)
        value_0 == intern_push(t.interning_tables.names, value_1.key)
    IN [tables |-> [t EXCEPT !.interning_tables.strings = value_1.table,
                             !.interning_tables.names   = value_0.table],
        ret    |-> value_0.key]

\* generate_interning_type for a Name parameter: the caller's String is
\* interned in strings, the resulting key in names.
intern_name(t, value_2) ==
    LET value_1 == intern(t.interning_tables.strings, value_2)
        value_0 == intern(t.interning_tables.names, value_1.key)
    IN [tables |-> [t EXCEPT !.interning_tables.strings = value_1.table,
                             !.interning_tables.names   = value_0.table],
        ret    |-> value_0.key]

\* register_names (generate_intern_value_registration).
register_names(t, value_2) == intern_name(t, value_2)

\* register_def_paths (generate_intern_tuple_registration): every column goes
\* through its interning chain, then the tuple itself is interned.
register_def_paths(t, value_name_2, value_cratehash_0) ==
    LET n == intern_name(t, value_name_2)
        k == intern(n.tables.interning_tables.def_paths, <<n.ret, value_cratehash_0>>)
    IN [tables |-> [n.tables EXCEPT !.interning_tables.def_paths = k.table],
        ret    |-> k.key]

\* Faulty variant of register_basic_blocks: a tuple already in the relation is not
\* inserted again.
register_basic_blocks_dedup(t, basic_block_0, mir_0, kind_0) ==
    [tables |-> IF <<basic_block_0, mir_0, kind_0>> \in Range(t.relations.basic_blocks)
                THEN t
                ELSE [t EXCEPT !.relations.basic_blocks =
                          insert(@, <<basic_block_0, mir_0, kind_0>>)],
     ret    |-> <<>>]

\* register_basic_blocks (generate_relation_registration): no column is
\* interned on the way in; a DefPath is the key of a tuple table and is taken
\* as given.
register_basic_blocks(t, basic_block_0, mir_0, kind_0) ==
    [tables |-> [t EXCEPT !.relations.basic_blocks =
                     insert(@, <<basic_block_0, mir_0, kind_0>>)],
     ret    |-> <<>>]

\* register_statements (generate_relation_registration): the auto column is
\* drawn from the counter, the Name column goes through its interning chain.
register_statements(t, basic_block_0, kind_2) ==
    LET stmt == get_fresh(t, "statements")
        kind == intern_name(stmt.tables, kind_2)
    IN [tables |-> [kind.tables EXCEPT !.relations.statements =
                        insert(@, <<stmt.ret, basic_block_0, kind.ret>>)],
        ret    |-> <<stmt.ret>>]

\* ------------------------------------------------------------------- merge
\* schema.interning_tables of the schema the code was generated from: the
\* table names in the order the schema file declares them (SchemaTables unless
\* a specification starts otherwise).
VARIABLE schema

\* Position of an interning table in schema.interning_tables.
Position(name) == CHOOSE i \in 1..Len(schema) : schema[i] = name

\* Faulty variant of remap_interning: a value self does not hold yet is put in
\* front of self's values.
RECURSIVE remap_interning_in_front(_, _, _)
remap_interning_in_front(table, items, map) ==
    IF items = <<>>
    THEN [table |-> table, map |-> map]
    ELSE LET new == intern(table, Head(items)[2])
         IN IF new.table = table
            THEN remap_interning_in_front(table, Tail(items), (Head(items)[1] :> new.key) @@ map)
            ELSE remap_interning_in_front(<<Head(items)[2]>> \o table, Tail(items),
                                          (Head(items)[1] :> 0) @@ map)

\* The `.map(|(key, value)| { ...; (key, self.<table>.intern(new_value)) })
\* .collect()` of merge: items are the (key, new_value) pairs in other's
\* order; the result is self's table and the HashMap old key -> new key.
RECURSIVE remap_interning(_, _, _)
remap_interning(table, items, map) ==
    IF items = <<>>
    THEN [table |-> table, map |-> map]
    ELSE LET new == intern(table, Head(items)[2])
         IN remap_interning(new.table, Tail(items), (Head(items)[1] :> new.key) @@ map)

\* Faulty variant of names_arg_remap: the key of other is re-interned as it is.
names_arg_remap_raw(strings, value) == value

\* arg_remap of the scalar table names: `strings[&value]` when the strings
\* map is already in interning_remap, the value itself otherwise.
names_arg_remap(strings, value) ==
    IF Position("strings") < Position("names") THEN strings[value] ELSE value

\* Faulty variant of def_paths_arg_remap: the Name column keeps the key of other.
def_paths_arg_remap_raw(names, value) == value

\* Faulty variant of def_paths_arg_remap: the CrateHash column is not copied.
def_paths_arg_remap_fixed_hash(names, value) == <<names[value[1]], "h1">>

\* arg_remap of the tuple table def_paths: the Name column goes through the
\* names map, the CrateHash column (a custom id) is kept.
def_paths_arg_remap(names, value) == <<names[value[1]], value[2]>>

\* The three interning steps of merge: self's tables afterwards and the maps.
\* other.interning_tables.<table>.into_iter() yields (key, value) in key
\* order, as the conversion to Vec<(K, V)> does.
merge_interning(self, other) ==
    LET strings == remap_interning(self.interning_tables.strings,
                                   IntoVec(other.interning_tables.strings), <<>>)
        names_items == [i \in 1..Len(other.interning_tables.names) |->
                           LET kv == IntoVec(other.interning_tables.names)[i]
                           IN <<kv[1], names_arg_remap(strings.map, kv[2])>>]
        names == remap_interning(self.interning_tables.names, names_items, <<>>)
        def_paths_items == [i \in 1..Len(other.interning_tables.def_paths) |->
                           LET kv == IntoVec(other.interning_tables.def_paths)[i]
                           IN <<kv[1], def_paths_arg_remap(names.map, kv[2])>>]
        def_paths == remap_interning(self.interning_tables.def_paths, def_paths_items, <<>>)
    IN [interning_tables |-> [strings   |-> strings.table,
                              names     |-> names.table,
                              def_paths |-> def_paths.table],
        strings |-> strings.map, names |-> names.map, def_paths |-> def_paths.map]

\* Faulty variant of shift_offset: the ids of other are not renumbered at all.
shift_offset_zero(self, id) == 0

\* Faulty variant of shift_offset: the constants are not subtracted from the counter.
shift_offset_counter(self, id) == self.counters[id]

\* The argument of shift: `self.counters.<id> - (constant_count as typ)`.
shift_offset(self, id) == (self.counters[id] - constant_count[id]) % Modulus

\* Faulty variant of remap_incremental: the reserved range is not tested.
remap_incremental_all(self, id, value) == shift(value, shift_offset(self, id))

\* params_remap of an IncrementalId column.
remap_incremental(self, id, value) ==
    IF constant_count[id] > 0
    THEN IF index(value) >= constant_count[id]
         THEN shift(value, shift_offset(self, id))
         ELSE value
    ELSE shift(value, shift_offset(self, id))

\* params_remap of the relation basic_blocks.
remap_basic_blocks(self, maps, fact) ==
    <<remap_incremental(self, "basicblocks", fact[1]), maps.def_paths[fact[2]], fact[3]>>

\* params_remap of the relation statements.
remap_statements(self, maps, fact) ==
    <<remap_incremental(self, "statements", fact[1]),
      remap_incremental(self, "basicblocks", fact[2]),
      maps.names[fact[3]]>>

\* Faulty variant of merge_relations: the facts of other come first.
merge_relations_other_first(self, other, maps) ==
    LET bb == [i \in 1..Len(other.relations.basic_blocks) |->
                  remap_basic_blocks(self, maps, other.relations.basic_blocks[i])]
        st == [i \in 1..Len(other.relations.statements) |->
                  remap_statements(self, maps, other.relations.statements[i])]
    IN [basic_blocks |-> bb \o self.relations.basic_blocks,
        statements   |-> st \o self.relations.statements]

\* `for (..) in other.relations.<name>.iter() { ...; self.relations.<name>
\* .insert(..) }` for both relations; self's counters are still the ones
\* from before the merge.
merge_relations(self, other, maps) ==
    LET bb == [i \in 1..Len(other.relations.basic_blocks) |->
                  remap_basic_blocks(self, maps, other.relations.basic_blocks[i])]
        st == [i \in 1..Len(other.relations.statements) |->
                  remap_statements(self, maps, other.relations.statements[i])]
    IN [basic_blocks |-> self.relations.basic_blocks \o bb,
        statements   |-> self.relations.statements \o st]

\* Faulty variant of advance_counter: the counters of self are left as they were.
advance_counter_none(self, other, id) == self.counters[id]

\* Faulty variant of advance_counter: the constants are not subtracted.
advance_counter_whole(self, other, id) ==
    (self.counters[id] + other.counters[id]) % Modulus

\* `self.counters.<id> += other.counters.<id> - (constant_count as typ)`.
advance_counter(self, other, id) ==
    (self.counters[id] + (other.counters[id] - constant_count[id])) % Modulus

\* The `+=` of the counter advance does not fit the backing type.
advance_counter_overflows(self, other, id) ==
    self.counters[id] + (other.counters[id] - constant_count[id]) > TypMax

\* Faulty variant of merge: the facts are remapped, the interning tables of
\* self are left as they were.
merge_keeps_tables(self, other) ==
    LET maps == merge_interning(self, other)
    IN [relations        |-> merge_relations(self, other, maps),
        counters         |-> [id \in IncrementalIds |-> advance_counter(self, other, id)],
        interning_tables |-> self.interning_tables]

\* Tables::merge.
merge(self, other) ==
    LET maps == merge_interning(self, other)
    IN [relations        |-> merge_relations(self, other, maps),
        counters         |-> [id \in IncrementalIds |-> advance_counter(self, other, id)],
        interning_tables |-> maps.interning_tables]

\* merge panics when a shift overflows (expect("Overflow!")).
merge_panics(self, other) ==
    \E r \in RelationNames : \E i \in 1..Len(other.relations[r]) : \E c \in IncColumns[r] :
        /\ index(other.relations[r][i][c[1]]) >= constant_count[c[2]]
        /\ shift_overflows(other.relations[r][i][c[1]], shift_offset(self, c[2]))

\* ------------------------------------------------------------- persistence
\* A path is a name and an extension ("" when it has none); Path::join and
\* PathBuf::set_extension.
Path(name, ext) == [name |-> name, ext |-> ext]
join(root, path) == [path EXCEPT !.name = root \o "/" \o @]
set_extension(path, ext) == [path EXCEPT !.ext = ext]
\* The text of a path.
display(path) == IF path.ext = "" THEN path.name ELSE path.name \o "." \o path.ext
\* The store every unit leaves in the workspace.
UnitPath(u) == Path("rust-corpus/" \o u, "bincode")

\* The shape serde derives for every type that is stored.
U8 == [k |-> "u8"]
StringTy == [k |-> "str"]
EnumTy(variants) == [k |-> "enum", variants |-> variants]
TupleTy(elems) == [k |-> "tuple", elems |-> elems]
VecTy(elem) == [k |-> "seq", elem |-> elem]
\* A struct with named fields, in declaration order.
StructTy(fields) == [k |-> "struct", fields |-> fields]
\* A struct around one collection: Relation { facts }, InterningTable { contents }.
WrapperTy(field, inner) == [k |-> "wrapper", field |-> field, inner |-> inner]
\* A PathBuf; it is stored as the text of the path.
PathBufTy == [k |-> "path"]

BasicBlockKindVariants == <<"Entry", "Regular">>
RelationTy(columns) == WrapperTy("facts", VecTy(TupleTy(columns)))
InterningTableTy(value) == WrapperTy("contents", VecTy(value))

\* #[derive(Deserialize, Serialize)] pub struct Relations.
RelationsTy ==
    StructTy(<< <<"basic_blocks", RelationTy(<<U8, U8, EnumTy(BasicBlockKindVariants)>>)>>,
                <<"statements", RelationTy(<<U8, U8, U8>>)>> >>)
\* #[derive(Deserialize, Serialize)] pub struct Counters.
CountersTy == StructTy(<< <<"basicblocks", U8>>, <<"statements", U8>> >>)
\* #[derive(Deserialize, Serialize)] pub struct InterningTables.
InterningTablesTy ==
    StructTy(<< <<"strings", InterningTableTy(StringTy)>>,
                <<"names", InterningTableTy(U8)>>,
                <<"def_paths", InterningTableTy(TupleTy(<<U8, StringTy>>))>> >>)
\* #[derive(Default, Deserialize, Serialize)] pub struct Tables.
TablesTy ==
    StructTy(<< <<"relations", RelationsTy>>, <<"counters", CountersTy>>,
                <<"interning_tables", InterningTablesTy>> >>)
\* The type of one field of a struct.
FieldTy(ty, name) ==
    ty.fields[CHOOSE i \in 1..Len(ty.fields) : ty.fields[i][1] = name][2]

\* The text values that occur in stored Tables, and the bytes of each.
Texts == <<"foo", "bar", "baz", "h1", "h2">>
Utf8(text) == 100 + (CHOOSE i \in 1..Len(Texts) : Texts[i] = text)
FromUtf8(byte) == Texts[byte - 100]
IsUtf8(byte) == byte \in 101..(100 + Len(Texts))
VariantIndex(variants, v) == (CHOOSE i \in 1..Len(variants) : variants[i] = v) - 1

\* bincode::serialize_into: fields and elements in order, nothing named; a
\* length in front of every Vec and String; an enum as its variant index.
RECURSIVE bincode_serialize(_, _)
RECURSIVE bincode_serialize_seq(_, _, _)
bincode_serialize_seq(tys, values, i) ==
    IF i > Len(tys) THEN <<>>
    ELSE bincode_serialize(tys[i], values[i]) \o bincode_serialize_seq(tys, values, i + 1)
bincode_serialize(ty, v) ==
    CASE ty.k = "u8"      -> <<v>>
      [] ty.k = "str"     -> <<Len(v), Utf8(v)>>
      [] ty.k = "enum"    -> <<VariantIndex(ty.variants, v)>>
      [] ty.k = "tuple"   -> bincode_serialize_seq(ty.elems, v, 1)
      [] ty.k = "seq"     -> <<Len(v)>> \o
                             bincode_serialize_seq([i \in 1..Len(v) |-> ty.elem], v, 1)
      [] ty.k = "wrapper" -> bincode_serialize(ty.inner, v)
      [] ty.k = "struct"  ->
             bincode_serialize_seq([i \in 1..Len(ty.fields) |-> ty.fields[i][2]],
                                   [i \in 1..Len(ty.fields) |-> v[ty.fields[i][1]]], 1)

\* The result of reading one value: whether it could be read, the value, and
\* the position after it.
Failed == [ok |-> FALSE, value |-> <<>>, pos |-> 0]
Read(value, pos) == [ok |-> TRUE, value |-> value, pos |-> pos]

\* bincode::deserialize_from: the reverse, driven by the expected type; it
\* fails when the input ends early or a byte fits no value of the type.
RECURSIVE bincode_deserialize(_, _, _)
RECURSIVE bincode_deserialize_seq(_, _, _, _, _)
bincode_deserialize_seq(tys, bytes, pos, i, acc) ==
    IF i > Len(tys) THEN Read(acc, pos)
    ELSE LET r == bincode_deserialize(tys[i], bytes, pos)
         IN IF r.ok THEN bincode_deserialize_seq(tys, bytes, r.pos, i + 1, Append(acc, r.value))
            ELSE Failed
bincode_deserialize(ty, bytes, pos) ==
    IF pos > Len(bytes) THEN Failed
    ELSE CASE ty.k = "u8" ->
                  IF bytes[pos] \in 0..TypMax THEN Read(bytes[pos], pos + 1) ELSE Failed
           [] ty.k = "str" ->
                  IF pos + 1 <= Len(bytes) /\ IsUtf8(bytes[pos + 1])
                     /\ bytes[pos] = Len(FromUtf8(bytes[pos + 1]))
                  THEN Read(FromUtf8(bytes[pos + 1]), pos + 2)
                  ELSE Failed
           [] ty.k = "enum" ->
                  IF bytes[pos] \in 0..(Len(ty.variants) - 1)
                  THEN Read(ty.variants[bytes[pos] + 1], pos + 1)
                  ELSE Failed
           [] ty.k = "tuple" -> bincode_deserialize_seq(ty.elems, bytes, pos, 1, <<>>)
           [] ty.k = "seq" ->
                  IF bytes[pos] \in 0..Len(bytes)
                  THEN bincode_deserialize_seq([i \in 1..bytes[pos] |-> ty.elem],
                                               bytes, pos + 1, 1, <<>>)
                  ELSE Failed
           [] ty.k = "wrapper" -> bincode_deserialize(ty.inner, bytes, pos)
           [] ty.k = "struct" ->
                  LET r == bincode_deserialize_seq(
                               [i \in 1..Len(ty.fields) |-> ty.fields[i][2]], bytes, pos, 1, <<>>)
                  IN IF r.ok
                     THEN Read([name \in {ty.fields[i][1] : i \in 1..Len(ty.fields)} |->
                                   r.value[CHOOSE i \in 1..Len(ty.fields) : ty.fields[i][1] = name]],
                               r.pos)
                     ELSE Failed

\* serde_json::to_writer_pretty, as a sequence of tokens: a struct is an
\* object keyed by field name, a Vec or tuple an array, an id a number, a
\* String and an enum variant a quoted string.
Quoted(text) == "\"" \o text \o "\""
Key(name) == Quoted(name) \o ":"
RECURSIVE json_to_writer(_, _)
RECURSIVE json_to_writer_seq(_, _, _)
RECURSIVE json_to_writer_fields(_, _, _)
json_to_writer_seq(tys, values, i) ==
    IF i > Len(tys) THEN <<>>
    ELSE json_to_writer(tys[i], values[i]) \o json_to_writer_seq(tys, values, i + 1)
json_to_writer_fields(fields, v, i) ==
    IF i > Len(fields) THEN <<>>
    ELSE <<Key(fields[i][1])>> \o json_to_writer(fields[i][2], v[fields[i][1]])
             \o json_to_writer_fields(fields, v, i + 1)
json_to_writer(ty, v) ==
    CASE ty.k = "u8"      -> <<ToString(v)>>
      [] ty.k = "str"     -> <<Quoted(v)>>
      [] ty.k = "enum"    -> <<Quoted(v)>>
      [] ty.k = "path"    -> <<Quoted(display(v))>>
      [] ty.k = "tuple"   -> <<"[">> \o json_to_writer_seq(ty.elems, v, 1) \o <<"]">>
      [] ty.k = "seq"     -> <<"[">> \o json_to_writer_seq([i \in 1..Len(v) |-> ty.elem], v, 1)
                                 \o <<"]">>
      [] ty.k = "wrapper" -> <<"{", Key(ty.field)>> \o json_to_writer(ty.inner, v) \o <<"}">>
      [] ty.k = "struct"  -> <<"{">> \o json_to_writer_fields(ty.fields, v, 1) \o <<"}">>

\* serde_json::from_reader, driven by the expected type.
RECURSIVE json_from_reader(_, _, _)
RECURSIVE json_from_reader_seq(_, _, _, _, _)
RECURSIVE json_from_reader_elems(_, _, _, _)
RECURSIVE json_from_reader_fields(_, _, _, _, _)
json_from_reader_seq(tys, tokens, pos, i, acc) ==
    IF i > Len(tys) THEN Read(acc, pos)
    ELSE LET r == json_from_reader(tys[i], tokens, pos)
         IN IF r.ok THEN json_from_reader_seq(tys, tokens, r.pos, i + 1, Append(acc, r.value))
            ELSE Failed
json_from_reader_elems(ty, tokens, pos, acc) ==
    IF pos > Len(tokens) THEN Failed
    ELSE IF tokens[pos] = "]" THEN Read(acc, pos + 1)
    ELSE LET r == json_from_reader(ty, tokens, pos)
         IN IF r.ok THEN json_from_reader_elems(ty, tokens, r.pos, Append(acc, r.value))
            ELSE Failed
json_from_reader_fields(fields, tokens, pos, i, acc) ==
    IF i > Len(fields) THEN Read(acc, pos)
    ELSE IF pos > Len(tokens) \/ tokens[pos] # Key(fields[i][1]) THEN Failed
    ELSE LET r == json_from_reader(fields[i][2], tokens, pos + 1)
         IN IF r.ok
            THEN json_from_reader_fields(fields, tokens, r.pos, i + 1, Append(acc, r.value))
            ELSE Failed
json_from_reader(ty, tokens, pos) ==
    IF pos > Len(tokens) THEN Failed
    ELSE CASE ty.k = "u8" ->
                  IF \E n \in 0..TypMax : ToString(n) = tokens[pos]
                  THEN Read(CHOOSE n \in 0..TypMax : ToString(n) = tokens[pos], pos + 1)
                  ELSE Failed
           [] ty.k = "str" ->
                  IF \E i \in 1..Len(Texts) : Quoted(Texts[i]) = tokens[pos]
                  THEN Read(Texts[CHOOSE i \in 1..Len(Texts) : Quoted(Texts[i]) = tokens[pos]],
                            pos + 1)
                  ELSE Failed
           [] ty.k = "enum" ->
                  IF \E i \in 1..Len(ty.variants) : Quoted(ty.variants[i]) = tokens[pos]
                  THEN Read(ty.variants[CHOOSE i \in 1..Len(ty.variants) :
                                            Quoted(ty.variants[i]) = tokens[pos]], pos + 1)
                  ELSE Failed
           [] ty.k = "path" ->
                  IF \E u \in Units : Quoted(display(UnitPath(u))) = tokens[pos]
                  THEN Read(UnitPath(CHOOSE u \in Units :
                                         Quoted(display(UnitPath(u))) = tokens[pos]), pos + 1)
                  ELSE Failed
           [] ty.k = "tuple" ->
                  IF tokens[pos] # "[" THEN Failed
                  ELSE LET r == json_from_reader_seq(ty.elems, tokens, pos + 1, 1, <<>>)
                       IN IF r.ok /\ r.pos <= Len(tokens) /\ tokens[r.pos] = "]"
                          THEN Read(r.value, r.pos + 1) ELSE Failed
           [] ty.k = "seq" ->
                  IF tokens[pos] # "[" THEN Failed
                  ELSE json_from_reader_elems(ty.elem, tokens, pos + 1, <<>>)
           [] ty.k = "wrapper" ->
                  IF tokens[pos] # "{" \/ pos + 1 > Len(tokens)
                     \/ tokens[pos + 1] # Key(ty.field)
                  THEN Failed
                  ELSE LET r == json_from_reader(ty.inner, tokens, pos + 2)
                       IN IF r.ok /\ r.pos <= Len(tokens) /\ tokens[r.pos] = "}"
                          THEN Read(r.value, r.pos + 1) ELSE Failed
           [] ty.k = "struct" ->
                  IF tokens[pos] # "{" THEN Failed
                  ELSE LET r == json_from_reader_fields(ty.fields, tokens, pos + 1, 1, <<>>)
                       IN IF r.ok /\ r.pos <= Len(tokens) /\ tokens[r.pos] = "}"
                          THEN Read([name \in {ty.fields[i][1] : i \in 1..Len(ty.fields)} |->
                                        r.value[CHOOSE i \in 1..Len(ty.fields) :
                                                    ty.fields[i][1] = name]],
                                    r.pos + 1)
                          ELSE Failed


\* A file on disk: whether it exists, whether it can be opened, its content.
NoFile == [exists |-> FALSE, readable |-> FALSE, bytes |-> <<>>]
FileOf(bytes) == [exists |-> TRUE, readable |-> TRUE, bytes |-> bytes]

\* LoadResult<T>: Ok(value) or Err(LoadError { path, .. }).
Ok(value) == [ok |-> TRUE, value |-> value, error |-> "", path |-> Path("", "")]
Err(error, path) == [ok |-> FALSE, value |-> <<>>, error |-> error, path |-> path]

\* storage::save: the file is created and the object written in the encoding
\* the extension names.
save(ty, object, path, files) ==
    [files EXCEPT ![path] =
        FileOf(IF path.ext = "bincode" THEN bincode_serialize(ty, object)
               ELSE json_to_writer(ty, object))]

\* Faulty variant of load: a file that does not exist reads as an empty Tables.
load_missing_as_default(ty, path, files) ==
    IF ~files[path].exists THEN Ok(DefaultTables)
    ELSE IF path.ext = "bincode"
         THEN LET r == bincode_deserialize(ty, files[path].bytes, 1)
              IN IF r.ok THEN Ok(r.value) ELSE Err("InvalidBincode", path)
         ELSE LET r == json_from_reader(ty, files[path].bytes, 1)
              IN IF r.ok /\ r.pos = Len(files[path].bytes) + 1 THEN Ok(r.value)
                 ELSE Err("InvalidJson", path)

\* storage::load: open the file (OpenFileError), then decode it in the
\* encoding the extension names (InvalidBincode, InvalidJson); serde_json
\* also rejects input after the value.
load(ty, path, files) ==
    IF ~files[path].exists \/ ~files[path].readable THEN Err("OpenFileError", path)
    ELSE IF path.ext = "bincode"
         THEN LET r == bincode_deserialize(ty, files[path].bytes, 1)
              IN IF r.ok THEN Ok(r.value) ELSE Err("InvalidBincode", path)
         ELSE LET r == json_from_reader(ty, files[path].bytes, 1)
              IN IF r.ok /\ r.pos = Len(files[path].bytes) + 1 THEN Ok(r.value)
                 ELSE Err("InvalidJson", path)

\* storage::load_or_default.
load_or_default(ty, default, path, files) ==
    IF files[path].exists THEN load(ty, path, files) ELSE Ok(default)

\* Tables::save_json, Tables::save_bincode: `path` comes without extension.
save_json(t, path, files) == save(TablesTy, t, set_extension(path, "json"), files)
save_bincode(t, path, files) == save(TablesTy, t, set_extension(path, "bincode"), files)
\* Tables::load and Tables::load_single_file: `path` comes with the extension.
tables_load(path, files) == load(TablesTy, path, files)
load_single_file(tables_file, files) == load(TablesTy, tables_file, files)

\* The files of the multi-file layout, in the order store_multifile writes
\* them: <<part of Tables, field, path>>.
MultifileLayout(database_root) ==
    << <<"relations", "basic_blocks",
         join(database_root, Path("relations/basic_blocks", "bincode"))>>,
       <<"relations", "statements",
         join(database_root, Path("relations/statements", "bincode"))>>,
       <<"counters", "", join(database_root, Path("counters", "bincode"))>>,
       <<"interning_tables", "strings",
         join(database_root, Path("interning/strings", "bincode"))>>,
       <<"interning_tables", "names",
         join(database_root, Path("interning/names", "bincode"))>>,
       <<"interning_tables", "def_paths",
         join(database_root, Path("interning/def_paths", "bincode"))>> >>
\* The type and the value a file of the layout holds.
LayoutTy(entry) ==
    IF entry[2] = "" THEN FieldTy(TablesTy, entry[1])
    ELSE FieldTy(FieldTy(TablesTy, entry[1]), entry[2])
LayoutValue(t, entry) == IF entry[2] = "" THEN t[entry[1]] ELSE t[entry[1]][entry[2]]

\* Tables::store_multifile, up to and including the n-th file.
RECURSIVE store_files(_, _, _, _)
store_files(t, layout, n, files) ==
    IF n = 0 THEN files
    ELSE save(LayoutTy(layout[n]), LayoutValue(t, layout[n]), layout[n][3],
              store_files(t, layout, n - 1, files))
\* Faulty variant of store_multifile: the counters file is not written.
store_multifile_without_counters(t, database_root, files) ==
    [p \in DOMAIN files |->
        IF p = join(database_root, Path("counters", "bincode")) THEN files[p]
        ELSE store_files(t, MultifileLayout(database_root),
                         Len(MultifileLayout(database_root)), files)[p]]

store_multifile(t, database_root, files) ==
    store_files(t, MultifileLayout(database_root), Len(MultifileLayout(database_root)), files)

\* Tables::load_multifile: every file is loaded; the first error is returned
\* (`?`). With or_default a file that does not exist stands for an empty part.
load_files(database_root, files, or_default) ==
    LET layout == MultifileLayout(database_root)
        part(n) == IF or_default
                   THEN load_or_default(LayoutTy(layout[n]),
                                        LayoutValue(DefaultTables, layout[n]),
                                        layout[n][3], files)
                   ELSE load(LayoutTy(layout[n]), layout[n][3], files)
        value(n) == part(n).value
    IN IF \E n \in 1..Len(layout) : ~part(n).ok
       THEN part(CHOOSE n \in 1..Len(layout) :
                     ~part(n).ok /\ \A m \in 1..(n - 1) : part(m).ok)
       ELSE Ok([relations        |-> [basic_blocks |-> value(1), statements |-> value(2)],
                counters         |-> value(3),
                interning_tables |-> [strings |-> value(4), names |-> value(5),
                                      def_paths |-> value(6)]])
load_multifile(database_root, files) == load_files(database_root, files, FALSE)
load_multifile_or_default(database_root, files) == load_files(database_root, files, TRUE)

\* ------------------------------------------------------------------- state
VARIABLES
    units,     \* the Tables of every compilation unit
    corpus,    \* the Tables every unit is merged into
    merged,    \* the units merged so far, in merge order
    pre,       \* corpus as it was when the last merge started
    prov,      \* for every fact of corpus: <<source unit, position there>>
    nops,      \* registration and fresh-id calls made so far
    calls,     \* per unit and relation: the registration calls, as called
    fresh,     \* per unit and id kind: the ids the fresh-id calls returned
    contents,  \* SpecIntern: one interning table
    log,       \* SpecIntern: the intern calls made on it, <<value, key>>
    build,     \* SpecOverflow: "debug" (overflow checks) or "release" (none)
    aborted,   \* SpecOverflow: the panic that ended the process, or "none"
    op,        \* SpecOverflow: the operation called last
    fs,        \* the files on disk, by path
    saved,     \* SpecStorage: per place, the Tables saved there last (or <<>>)
    loaded,    \* SpecStorage: the last load: function, path, result
    pc,            \* SpecManager: the statement of update_database to run next,
                   \*              "down" while no manager process runs
    loaded_crates, \* SpecManager: DatabaseManager::loaded_crates
    crates,        \* SpecManager: what is left of the iterator scan_crates made
    scanned,       \* SpecManager: the paths scan_crates found, in its order
    errors,        \* SpecManager: the errors load_crate returned in this run
    cursor,        \* SpecManager: files store_multifile has written in this run
    run            \* SpecManager: how the last manager process started and ended

vars == <<units, corpus, merged, pre, prov, nops, calls, fresh, contents, log,
          build, aborted, op, fs, saved, loaded,
          pc, loaded_crates, crates, scanned, errors, cursor, run, schema>>
intern_vars == <<contents, log>>
limit_vars == <<build, aborted, op, schema>>
storage_vars == <<fs, saved, loaded>>
manager_vars == <<pc, loaded_crates, crates, scanned, errors, cursor, run>>
\* What the registration calls and load_crate of Spec leave alone.
rest_vars == <<intern_vars, limit_vars, storage_vars, manager_vars>>
store_vars == <<units, corpus, merged, pre, prov, nops, calls, fresh>>

\* The paths in use: the store of every unit, the corpus directory with its
\* list of loaded crates, and a Tables saved as a single file.
DatabaseRoot == "database"
\* The corpus directory itself.
DatabaseDir == Path(DatabaseRoot, "")
LoadedCratesPath == join(DatabaseRoot, Path("loaded_crates", "json"))
TablesFile == Path("tables", "")
SingleFiles == {set_extension(TablesFile, "json"), set_extension(TablesFile, "bincode")}
Paths ==
    {UnitPath(u) : u \in Units} \cup {LoadedCratesPath} \cup SingleFiles
    \cup {MultifileLayout(DatabaseRoot)[n][3] : n \in 1..Len(MultifileLayout(DatabaseRoot))}
    \cup {DatabaseDir}
\* The places a whole Tables is saved at.
SavePlaces == SingleFiles \cup {Path(DatabaseRoot, "")}
NothingLoaded == [function |-> "none", path |-> Path("", ""), expected |-> <<>>,
                  result |-> Ok(<<>>)]

StorageInit ==
    /\ fs = [p \in Paths |-> NoFile]
    /\ saved = [p \in SavePlaces |-> <<>>]
    /\ loaded = NothingLoaded

NotRun == [existed |-> FALSE, list |-> "missing", was |-> {}, result |-> "none",
           ended |-> "none", at |-> "down"]

ManagerInit ==
    /\ pc = "down"
    /\ loaded_crates = {}
    /\ crates = <<>>
    /\ scanned = <<>>
    /\ errors = <<>>
    /\ cursor = 0
    /\ run = NotRun

Init ==
    /\ units = [u \in Units |-> DefaultTables]
    /\ corpus = DefaultTables
    /\ merged = <<>>
    /\ pre = DefaultTables
    /\ prov = [basic_blocks |-> <<>>, statements |-> <<>>]
    /\ nops = 0
    /\ calls = [u \in Units |-> [basic_blocks |-> <<>>, statements |-> <<>>]]
    /\ fresh = [u \in Units |-> [id \in IncrementalIds |-> <<>>]]
    /\ contents = <<>>
    /\ log = <<>>
    /\ build = "release"
    /\ aborted = "none"
    /\ op = "none"
    /\ schema = SchemaTables
    /\ StorageInit
    /\ ManagerInit

\* A unit is under extraction until its store is merged.
Open(u) == u \notin Range(merged) /\ nops < MaxOps

\* Ids of BasicBlock a caller can hold: the constant and the fresh ones issued.
KnownBasicBlocks(t) ==
    {get_no_block(t)} \cup constant_count.basicblocks..(t.counters.basicblocks - 1)

\* Keys of def_paths a caller can hold.
KnownDefPaths(t) == {kv[1] : kv \in Range(IntoVec(t.interning_tables.def_paths))}

Call(u, result) ==
    /\ units' = [units EXCEPT ![u] = result.tables]
    /\ nops' = nops + 1
    /\ UNCHANGED <<corpus, merged, pre, prov, rest_vars>>

\* The call as the caller sees it: the arguments passed and the ids returned.
Logged(u, r, call) == calls' = [calls EXCEPT ![u][r] = Append(@, call)]

\* The id a fresh-id call handed out, as the caller received it.
Issued(u, id, ret) == fresh' = [fresh EXCEPT ![u][id] = Append(@, ret)]

RegisterNames(u) ==
    /\ Open(u)
    /\ \E s \in UnitStrings[u] : Call(u, register_names(units[u], s))
    /\ UNCHANGED <<calls, fresh>>

RegisterDefPaths(u) ==
    /\ Open(u)
    /\ \E s \in UnitStrings[u], h \in CrateHashes : Call(u, register_def_paths(units[u], s, h))
    /\ UNCHANGED <<calls, fresh>>

RegisterBasicBlocks(u) ==
    /\ Open(u)
    /\ \E b \in KnownBasicBlocks(units[u]), mir \in KnownDefPaths(units[u]),
          kind \in BasicBlockKinds :
           /\ Call(u, register_basic_blocks(units[u], b, mir, kind))
           /\ Logged(u, "basic_blocks", <<b, mir, kind>>)
    /\ UNCHANGED fresh

RegisterStatements(u) ==
    /\ Open(u)
    /\ \E b \in KnownBasicBlocks(units[u]), s \in UnitStrings[u] :
           /\ Call(u, register_statements(units[u], b, s))
           /\ Logged(u, "statements", register_statements(units[u], b, s).ret \o <<b, s>>)
           /\ Issued(u, "statements", register_statements(units[u], b, s).ret[1])

GetFresh(u) ==
    /\ Open(u)
    /\ \E id \in IncrementalIds :
           /\ Call(u, get_fresh(units[u], id))
           /\ Issued(u, id, get_fresh(units[u], id).ret)
    /\ UNCHANGED calls

\* DatabaseManager::load_crate: the unit's store is merged into the corpus.
Merge(u) ==
    /\ u \notin Range(merged)
    /\ ~merge_panics(corpus, units[u])
    /\ corpus' = merge(corpus, units[u])
    /\ pre' = corpus
    /\ merged' = Append(merged, u)
    /\ prov' = [r \in RelationNames |->
                   prov[r] \o [i \in 1..Len(units[u].relations[r]) |-> <<u, i>>]]
    /\ UNCHANGED <<units, nops, calls, fresh, rest_vars>>

Next ==
    \E u \in Units :
        \/ RegisterNames(u)
        \/ RegisterDefPaths(u)
        \/ RegisterBasicBlocks(u)
        \/ RegisterStatements(u)
        \/ GetFresh(u)
        \/ Merge(u)

Spec == Init /\ [][Next]_vars

\* ------------------------------------------- one interning table on its own
\* InterningTable::intern called on one table with any sequence of values.
InternCall ==
    /\ Len(log) < MaxInterns
    /\ \E value \in Strings :
           /\ contents' = intern(contents, value).table
           /\ log' = Append(log, <<value, intern(contents, value).key>>)
    /\ UNCHANGED <<store_vars, limit_vars, storage_vars, manager_vars>>

NextIntern == InternCall

SpecIntern == Init /\ [][NextIntern]_vars

\* ------------------------------------------ counters at the end of the type
\* The store an extraction of unit u leaves behind: one basic block of one
\* def path with one statement; unit B has a second statement outside any
\* block.
ExtractedUnit ==
    [u \in Units |->
        LET s  == IF u = "A" THEN "foo" ELSE "bar"
            bb == get_fresh(DefaultTables, "basicblocks")
            dp == register_def_paths(bb.tables, s, "h1")
            t3 == register_basic_blocks(dp.tables, bb.ret, dp.ret, "Entry").tables
            t4 == register_statements(t3, bb.ret, s).tables
        IN IF u = "A" THEN t4
           ELSE register_statements(t4, get_no_block(t4), "baz").tables]

\* Counter values within reach of TypMax (a Tables that has issued that many
\* ids and registered no fact yet).
HighCounters == (TypMax - 2)..TypMax

InitOverflow ==
    /\ units = ExtractedUnit
    /\ \E bb \in HighCounters, st \in HighCounters :
           corpus = [DefaultTables EXCEPT !.counters =
                        [basicblocks |-> bb, statements |-> st]]
    /\ pre = corpus
    /\ merged = <<>>
    /\ prov = [basic_blocks |-> <<>>, statements |-> <<>>]
    /\ nops = 0
    /\ calls = [u \in Units |-> [basic_blocks |-> <<>>, statements |-> <<>>]]
    /\ fresh = [u \in Units |-> [id \in IncrementalIds |-> <<>>]]
    /\ contents = <<>>
    /\ log = <<>>
    /\ build \in {"debug", "release"}
    /\ aborted = "none"
    /\ op = "none"
    /\ schema = SchemaTables
    /\ StorageInit
    /\ ManagerInit

\* Tables::get_fresh_<id> on the corpus. `+= 1` past the end of the type
\* panics in a build with overflow checks and wraps in one without.
GetFreshAtLimit ==
    /\ aborted = "none"
    /\ nops < MaxLimitOps
    /\ \E id \in IncrementalIds :
           IF get_fresh_overflows(corpus, id) /\ build = "debug"
           THEN /\ aborted' = "attempt to add with overflow"
                /\ UNCHANGED corpus
           ELSE /\ corpus' = get_fresh(corpus, id).tables
                /\ UNCHANGED aborted
    /\ pre' = corpus
    /\ op' = "get_fresh"
    /\ nops' = nops + 1
    /\ UNCHANGED <<units, merged, prov, calls, fresh, intern_vars, build, schema, storage_vars,
                   manager_vars>>

\* Tables::merge of a unit into the corpus. A shift past the end of the type
\* panics in every build; the counter advance behaves as `+= 1` does.
MergeAtLimit(u) ==
    /\ aborted = "none"
    /\ nops < MaxLimitOps
    /\ u \notin Range(merged)
    /\ IF merge_panics(corpus, units[u])
       THEN /\ aborted' = "Overflow!"
            /\ UNCHANGED corpus
       ELSE IF build = "debug"
               /\ \E id \in IncrementalIds : advance_counter_overflows(corpus, units[u], id)
            THEN /\ aborted' = "attempt to add with overflow"
                 /\ UNCHANGED corpus
            ELSE /\ corpus' = merge(corpus, units[u])
                 /\ UNCHANGED aborted
    /\ pre' = corpus
    /\ merged' = Append(merged, u)
    /\ op' = "merge"
    /\ nops' = nops + 1
    /\ UNCHANGED <<units, prov, calls, fresh, intern_vars, build, schema, storage_vars,
                   manager_vars>>

NextOverflow ==
    \/ GetFreshAtLimit
    \/ \E u \in Units : MergeAtLimit(u)

SpecOverflow == InitOverflow /\ [][NextOverflow]_vars

\* ------------------------------------------------------ saving and loading
\* One Tables (corpus) is filled with the stores of extracted units, saved in
\* either layout and loaded back, in any interleaving.
memory_vars == <<units, merged, pre, prov, calls, fresh, intern_vars, limit_vars,
                 manager_vars>>

Fill ==
    /\ nops < MaxStoreOps
    /\ \E u \in Units : corpus' = merge(corpus, ExtractedUnit[u])
    /\ nops' = nops + 1
    /\ UNCHANGED <<memory_vars, storage_vars>>

SaveJson ==
    /\ fs' = save_json(corpus, TablesFile, fs)
    /\ saved' = [saved EXCEPT ![set_extension(TablesFile, "json")] = <<corpus>>]
    /\ UNCHANGED <<corpus, nops, memory_vars, loaded>>

SaveBincode ==
    /\ fs' = save_bincode(corpus, TablesFile, fs)
    /\ saved' = [saved EXCEPT ![set_extension(TablesFile, "bincode")] = <<corpus>>]
    /\ UNCHANGED <<corpus, nops, memory_vars, loaded>>

StoreMultifile ==
    /\ fs' = store_multifile(corpus, DatabaseRoot, fs)
    /\ saved' = [saved EXCEPT ![Path(DatabaseRoot, "")] = <<corpus>>]
    /\ UNCHANGED <<corpus, nops, memory_vars, loaded>>

Loaded(function, path, result) ==
    /\ loaded' = [function |-> function, path |-> path, expected |-> saved[path],
                  result |-> result]
    /\ UNCHANGED <<corpus, nops, memory_vars, fs, saved>>

TablesLoad == \E path \in SingleFiles : Loaded("load", path, tables_load(path, fs))

LoadSingleFile ==
    \E path \in SingleFiles : Loaded("load_single_file", path, load_single_file(path, fs))

LoadOrDefault ==
    \E path \in SingleFiles :
        Loaded("load_or_default", path, load_or_default(TablesTy, DefaultTables, path, fs))

LoadMultifile ==
    Loaded("load_multifile", Path(DatabaseRoot, ""), load_multifile(DatabaseRoot, fs))

NextStorage ==
    \/ Fill
    \/ SaveJson
    \/ SaveBincode
    \/ StoreMultifile
    \/ TablesLoad
    \/ LoadSingleFile
    \/ LoadOrDefault
    \/ LoadMultifile

SpecStorage == Init /\ [][NextStorage]_vars

\* ------------------------------------------------------- the store manager
\* One manager process at a time: DatabaseManager::new, then update_database
\* statement by statement; the process can crash before any statement and in
\* the middle of a file write. Extractions put unit stores into the workspace
\* at any time.

\* The enumerations of a finite set.
Perms(S) ==
    {f \in [1..Cardinality(S) -> S] : \A i, j \in 1..Cardinality(S) : f[i] = f[j] => i = j}

\* std::fs::create_dir_all(database_root).
create_dir_all(files) ==
    IF files[DatabaseDir].exists THEN files ELSE [files EXCEPT ![DatabaseDir] = FileOf(<<>>)]

\* The body of DatabaseManager::new, given what its reads returned: in a
\* directory that exists the list of loaded crates must open and parse, or the
\* process panics; a new directory is created with an empty list. Then the
\* corpus is loaded (unwrap).
new_from(files, list, database) ==
    IF files[DatabaseDir].exists /\ ~list.ok
    THEN [panic |-> "The database state is corrupted.", files |-> files,
          loaded_crates |-> {}, database |-> DefaultTables]
    ELSE IF ~database.ok
    THEN [panic |-> "unwrap", files |-> create_dir_all(files), loaded_crates |-> {},
          database |-> DefaultTables]
    ELSE [panic |-> "", files |-> create_dir_all(files),
          loaded_crates |-> IF files[DatabaseDir].exists THEN Range(list.value) ELSE {},
          database |-> database.value]

\* Faulty variant of new: a list of loaded crates that cannot be read counts
\* as an empty list.
new_without_list(files) ==
    new_from(files, load_or_default(VecTy(PathBufTy), <<>>, LoadedCratesPath, files),
             load_multifile_or_default(DatabaseRoot, create_dir_all(files)))

\* DatabaseManager::new.
new(files) ==
    new_from(files, load(VecTy(PathBufTy), LoadedCratesPath, files),
             load_multifile_or_default(DatabaseRoot, create_dir_all(files)))

\* Faulty variant of load_crate: the path is recorded whether or not the
\* store could be loaded.
load_crate_marks_failed(database, crates_loaded, crate_path, files) ==
    LET crate_tables == tables_load(crate_path, files)
    IN IF ~crate_tables.ok
       THEN [result |-> crate_tables, database |-> database,
             loaded_crates |-> crates_loaded \cup {crate_path}]
       ELSE [result |-> Ok(<<>>), database |-> merge(database, crate_tables.value),
             loaded_crates |-> crates_loaded \cup {crate_path}]

\* Faulty variant of load_crate: the store is merged and its path is not
\* recorded.
load_crate_unrecorded(database, crates_loaded, crate_path, files) ==
    LET crate_tables == tables_load(crate_path, files)
    IN IF ~crate_tables.ok
       THEN [result |-> crate_tables, database |-> database, loaded_crates |-> crates_loaded]
       ELSE [result |-> Ok(<<>>), database |-> merge(database, crate_tables.value),
             loaded_crates |-> crates_loaded]

\* DatabaseManager::load_crate: `?` returns the load error before anything
\* is merged or recorded.
load_crate(database, crates_loaded, crate_path, files) ==
    LET crate_tables == tables_load(crate_path, files)
    IN IF ~crate_tables.ok
       THEN [result |-> crate_tables, database |-> database, loaded_crates |-> crates_loaded]
       ELSE [result |-> Ok(<<>>), database |-> merge(database, crate_tables.value),
             loaded_crates |-> crates_loaded \cup {crate_path}]

\* Faulty variant of update_database: the list is written before the corpus.
update_database_list_first == <<"loop", "remove", "write", "store">>

\* Faulty variant of update_database: the list is not removed.
update_database_keeps_list == <<"loop", "store", "write">>

\* DatabaseManager::update_database: the loop over the scanned crates, the
\* removal of the list of loaded crates, store_multifile, the write of the list.
update_database == <<"loop", "remove", "store", "write">>

\* The statement after `statement`, "down" after the last one.
after(statement) ==
    LET i == CHOOSE j \in 1..Len(update_database) : update_database[j] = statement
    IN IF i = Len(update_database) THEN "down" ELSE update_database[i + 1]

Goto(statement) ==
    /\ pc' = statement
    /\ run' = IF statement = "down" THEN [run EXCEPT !.ended = "finished"] ELSE run

\* How the list of loaded crates reads: "missing", "invalid" or "ok".
ListState(files) ==
    IF ~files[LoadedCratesPath].exists THEN "missing"
    ELSE IF load(VecTy(PathBufTy), LoadedCratesPath, files).ok THEN "ok" ELSE "invalid"

\* The process has started with r, the result of new; scan_crates at the head
\* of update_database finds the bincode files of the workspace, in walkdir's
\* order.
Started(r, started) ==
    IF r.panic # ""
    THEN /\ fs' = r.files
         /\ run' = [started EXCEPT !.result = r.panic, !.ended = "crashed"]
         /\ UNCHANGED <<pc, corpus, loaded_crates, crates, scanned, errors, cursor>>
    ELSE /\ fs' = r.files
         /\ corpus' = r.database
         /\ loaded_crates' = r.loaded_crates
         /\ \E order \in Perms({UnitPath(u) : u \in {v \in Units : fs[UnitPath(v)].exists}}) :
                /\ crates' = order
                /\ scanned' = order
                /\ pc' = IF order = <<>> THEN after("loop") ELSE "loop"
         /\ errors' = <<>>
         /\ cursor' = 0
         /\ run' = [started EXCEPT !.was = r.loaded_crates]

\* A manager process starts: DatabaseManager::new, then update_database.
New ==
    /\ pc = "down"
    /\ Started(new(fs), [existed |-> fs[DatabaseDir].exists, list |-> ListState(fs),
                         was |-> {}, result |-> "ok", ended |-> "running", at |-> "down"])
    /\ UNCHANGED <<units, merged, pre, prov, nops, calls, fresh, intern_vars, limit_vars,
                   saved, loaded>>

manager_rest == <<units, merged, pre, prov, nops, calls, fresh, intern_vars, limit_vars,
                  saved, loaded>>

\* One turn of the loop: a crate already loaded is passed over, an error of
\* load_crate is logged, and the loop goes on with the next path.
LoadCrate ==
    /\ pc = "loop"
    /\ crates # <<>>
    /\ LET path == Head(crates)
           r == load_crate(corpus, loaded_crates, path, fs)
       IN IF path \in loaded_crates
          THEN UNCHANGED <<corpus, loaded_crates, errors>>
          ELSE /\ tables_load(path, fs).ok => ~merge_panics(corpus, tables_load(path, fs).value)
               /\ corpus' = r.database
               /\ loaded_crates' = r.loaded_crates
               /\ errors' = IF r.result.ok THEN errors ELSE Append(errors, r.result)
    /\ crates' = Tail(crates)
    /\ Goto(IF Tail(crates) = <<>> THEN after("loop") ELSE "loop")
    /\ UNCHANGED <<fs, scanned, cursor, manager_rest>>

\* fs::remove_file(&self.loaded_crates_path); NotFound is not an error.
RemoveLoadedCrates ==
    /\ pc = "remove"
    /\ fs' = [fs EXCEPT ![LoadedCratesPath] = NoFile]
    /\ Goto(after("remove"))
    /\ UNCHANGED <<corpus, loaded_crates, crates, scanned, errors, cursor, manager_rest>>

\* self.database.store_multifile, one file at a time.
StoreFile ==
    /\ pc = "store"
    /\ LET layout == MultifileLayout(DatabaseRoot)
           n == cursor + 1
       IN /\ fs' = save(LayoutTy(layout[n]), LayoutValue(corpus, layout[n]), layout[n][3], fs)
          /\ cursor' = IF n = Len(layout) THEN 0 ELSE n
          /\ Goto(IF n = Len(layout) THEN after("store") ELSE "store")
    /\ UNCHANGED <<corpus, loaded_crates, crates, scanned, errors, manager_rest>>

\* File::create and serde_json::to_writer_pretty of the HashSet, in the order
\* its iterator happens to have.
WriteLoadedCrates ==
    /\ pc = "write"
    /\ \E order \in Perms(loaded_crates) :
           fs' = save(VecTy(PathBufTy), order, LoadedCratesPath, fs)
    /\ Goto(after("write"))
    /\ UNCHANGED <<corpus, loaded_crates, crates, scanned, errors, cursor, manager_rest>>

\* The lengths at which a write of n tokens can be cut off.
TornLengths(n) == {0, n \div 2} \cap 0..(n - 1)
\* The file system after a write of `path` that was cut off.
Torn(files, path) ==
    {[files EXCEPT ![path] = FileOf(SubSeq(files[path].bytes, 1, n))] :
        n \in TornLengths(Len(files[path].bytes))}

\* The process dies: before the next statement, or inside the file write the
\* next statement would make.
Crash ==
    /\ pc # "down"
    /\ \/ UNCHANGED fs
       \/ /\ pc = "store"
          /\ LET entry == MultifileLayout(DatabaseRoot)[cursor + 1]
             IN fs' \in Torn(save(LayoutTy(entry), LayoutValue(corpus, entry), entry[3], fs),
                             entry[3])
       \/ /\ pc = "write"
          /\ \E order \in Perms(loaded_crates) :
                 fs' \in Torn(save(VecTy(PathBufTy), order, LoadedCratesPath, fs),
                              LoadedCratesPath)
    /\ pc' = "down"
    /\ run' = [run EXCEPT !.ended = "crashed", !.at = pc]
    /\ UNCHANGED <<corpus, loaded_crates, crates, scanned, errors, cursor, manager_rest>>

\* Before a manager process starts, an extraction leaves the store of unit u
\* in the workspace: complete, cut off, or not readable by the manager.
Extract(u) ==
    /\ pc = "down"
    /\ ~fs[UnitPath(u)].exists
    /\ LET whole == save_bincode(ExtractedUnit[u], set_extension(UnitPath(u), ""), fs)
       IN \/ fs' = whole
          \/ fs' \in Torn(whole, UnitPath(u))
          \/ fs' = [whole EXCEPT ![UnitPath(u)].readable = FALSE]
    /\ UNCHANGED <<corpus, manager_vars, manager_rest>>

NextManager ==
    \/ New
    \/ LoadCrate
    \/ RemoveLoadedCrates
    \/ StoreFile
    \/ WriteLoadedCrates
    \/ Crash
    \/ \E u \in Units : Extract(u)

SpecManager == Init /\ [][NextManager]_vars

\* ---------------------------------------------- merging a store repeatedly
\* Stores a unit can have built when merging starts: nothing, a name only,
\* the store of an extraction, and that store with one more statement.
Stores(u) ==
    {DefaultTables, ExtractedUnit[u]}
    \cup {register_names(DefaultTables, s).tables : s \in UnitStrings[u]}
    \cup {register_statements(ExtractedUnit[u], get_no_block(ExtractedUnit[u]), s).tables :
             s \in UnitStrings[u]}

InitRepeat ==
    /\ units \in [Units -> UNION {Stores(u) : u \in Units}]
    /\ \A u \in Units : units[u] \in Stores(u)
    /\ corpus = DefaultTables
    /\ merged = <<>>
    /\ pre = DefaultTables
    /\ prov = [basic_blocks |-> <<>>, statements |-> <<>>]
    /\ nops = 0
    /\ calls = [u \in Units |-> [basic_blocks |-> <<>>, statements |-> <<>>]]
    /\ fresh = [u \in Units |-> [id \in IncrementalIds |-> <<>>]]
    /\ contents = <<>>
    /\ log = <<>>
    /\ build = "release"
    /\ aborted = "none"
    /\ op = "none"
    /\ schema = SchemaTables
    /\ StorageInit
    /\ ManagerInit

\* Tables::merge called with the store of unit u, whether or not that store
\* was merged before: merge itself keeps no record of what it has merged.
MergeRepeated(u) ==
    /\ Len(merged) < MaxRepeats
    /\ ~merge_panics(corpus, units[u])
    /\ corpus' = merge(corpus, units[u])
    /\ pre' = corpus
    /\ merged' = Append(merged, u)
    /\ prov' = [r \in RelationNames |->
                   prov[r] \o [i \in 1..Len(units[u].relations[r]) |-> <<u, i>>]]
    /\ UNCHANGED <<units, nops, calls, fresh, rest_vars>>

NextRepeat == \E u \in Units : MergeRepeated(u)

SpecRepeat == InitRepeat /\ [][NextRepeat]_vars

\* ------------------------------- a table with more entries than keys
\* An interning table that holds n distinct values, the i-th value written i.
Filled(n) == [i \in 1..n |-> i]
\* Table sizes around the number of values of the key type.
WideSizes == (Modulus - 2)..Modulus
\* Values passed to intern: two the table holds and values it does not hold.
WideValues == {1, 2, Modulus + 1, Modulus + 2, Modulus + 3}

InitWide ==
    /\ \E n \in WideSizes : contents = Filled(n)
    /\ log = <<>>
    /\ units = [u \in Units |-> DefaultTables]
    /\ corpus = DefaultTables
    /\ merged = <<>>
    /\ pre = DefaultTables
    /\ prov = [basic_blocks |-> <<>>, statements |-> <<>>]
    /\ nops = 0
    /\ calls = [u \in Units |-> [basic_blocks |-> <<>>, statements |-> <<>>]]
    /\ fresh = [u \in Units |-> [id \in IncrementalIds |-> <<>>]]
    /\ build = "release"
    /\ aborted = "none"
    /\ op = "none"
    /\ schema = SchemaTables
    /\ StorageInit
    /\ ManagerInit

\* InterningTable::intern on the table; the key is made from the index by
\* From<usize>.
InternAtLimit ==
    /\ Len(log) < MaxWideInterns
    /\ \E value \in WideValues :
           /\ contents' = intern(contents, value).table
           /\ log' = Append(log, <<value, intern(contents, value).key>>)
    /\ UNCHANGED <<store_vars, limit_vars, storage_vars, manager_vars>>

NextWide == InternAtLimit

SpecWide == InitWide /\ [][NextWide]_vars

\* ------------------------------------- schemas in every declaration order
\* The code generate_merge_functions emits for the reduced schema with its
\* interning tables declared in any order; stores built by registration are
\* merged, each once.
InitSchema ==
    /\ schema \in Perms(Range(SchemaTables))
    /\ units \in [Units -> UNION {Stores(u) : u \in Units}]
    /\ \A u \in Units : units[u] \in Stores(u)
    /\ corpus = DefaultTables
    /\ merged = <<>>
    /\ pre = DefaultTables
    /\ prov = [basic_blocks |-> <<>>, statements |-> <<>>]
    /\ nops = 0
    /\ calls = [u \in Units |-> [basic_blocks |-> <<>>, statements |-> <<>>]]
    /\ fresh = [u \in Units |-> [id \in IncrementalIds |-> <<>>]]
    /\ contents = <<>>
    /\ log = <<>>
    /\ build = "release"
    /\ aborted = "none"
    /\ op = "none"
    /\ StorageInit
    /\ ManagerInit

NextSchema == \E u \in Units : Merge(u)

SpecSchema == InitSchema /\ [][NextSchema]_vars

\* ------------------------------------------------------- views of a state
\* The Tables merged last (units are not touched once merged).
other == units[merged[Len(merged)]]
\* Where the facts of the last merge start in a relation of corpus.
Base(r) == Len(pre.relations[r])

\* The String a Name key stands for in the tables of t.
ResolveName(t, key) ==
    lookup(t.interning_tables.strings, lookup(t.interning_tables.names, key))
\* The (String, CrateHash) a DefPath key stands for in the tables of t.
ResolveDefPath(t, key) ==
    LET value == lookup(t.interning_tables.def_paths, key)
    IN <<ResolveName(t, value[1]), value[2]>>

\* Every place of corpus that holds an incremental id: <<relation, row, column>>.
Occurrences ==
    UNION {{<<r, i, c>> : i \in 1..Len(corpus.relations[r]), c \in IncColumns[r]} :
              r \in RelationNames}
Kind(o) == o[3][2]
CorpusId(o) == corpus.relations[o[1]][o[2]][o[3][1]]
Source(o) == prov[o[1]][o[2]][1]
SourceId(o) == units[Source(o)].relations[o[1]][prov[o[1]][o[2]][2]][o[3][1]]
Reserved(id, value) == value < constant_count[id]

\* ------------------------------------------------------------------ claims

\* C1: merge is collision-free. Two places of the corpus that hold the same
\* non-reserved incremental id of one kind hold the same id of the same
\* source unit: ids of different units, and different ids of one unit, never
\* meet after any number of merges into an empty corpus.
C1_MergeCollisionFree ==
    \A o1, o2 \in Occurrences :
        (/\ Kind(o1) = Kind(o2)
         /\ CorpusId(o1) = CorpusId(o2)
         /\ ~Reserved(Kind(o1), CorpusId(o1)))
        => (Source(o1) = Source(o2) /\ SourceId(o1) = SourceId(o2))

\* Both units are merged and both had issued the same local id, which now
\* sits in the corpus once for each of them.
C1_Witness ==
    /\ Len(merged) = 2
    /\ \E o1, o2 \in Occurrences :
           /\ Kind(o1) = Kind(o2)
           /\ Source(o1) # Source(o2)
           /\ SourceId(o1) = SourceId(o2)
           /\ ~Reserved(Kind(o1), SourceId(o1))

\* C3: after self.merge(other) every interned-id column of a fact appended
\* from other holds a key that denotes, in self's tables, the value the
\* original key denoted in other's tables.
C3_MergeRemapsInternedKeys ==
    Len(merged) > 0 =>
        /\ \A i \in 1..Len(other.relations.statements) :
               ResolveName(corpus, corpus.relations.statements[Base("statements") + i][3])
                   = ResolveName(other, other.relations.statements[i][3])
        /\ \A i \in 1..Len(other.relations.basic_blocks) :
               ResolveDefPath(corpus, corpus.relations.basic_blocks[Base("basic_blocks") + i][2])
                   = ResolveDefPath(other, other.relations.basic_blocks[i][2])

\* A fact of the second unit was appended with a Name key that differs from
\* the key it had in the unit, and a string of the unit was already interned
\* in the corpus while another was new.
C3_Witness ==
    /\ Len(merged) = 2
    /\ \E i \in 1..Len(other.relations.statements) :
           corpus.relations.statements[Base("statements") + i][3]
               # other.relations.statements[i][3]
    /\ \E s \in Range(other.interning_tables.strings) : s \in Range(pre.interning_tables.strings)
    /\ \E s \in Range(other.interning_tables.strings) : s \notin Range(pre.interning_tables.strings)

\* C4: during self.merge(other) every incremental-id column value v of kind k
\* outside the reserved range is appended as v + (c - num_constants(k)), c
\* being self's counter for k before the merge, in every relation and fact.
C4_MergeShiftsIncrementalIds ==
    Len(merged) > 0 =>
        \A r \in RelationNames : \A i \in 1..Len(other.relations[r]) : \A c \in IncColumns[r] :
            LET v == other.relations[r][i][c[1]]
            IN ~Reserved(c[2], v) =>
                   corpus.relations[r][Base(r) + i][c[1]]
                       = v + (pre.counters[c[2]] - constant_count[c[2]])

\* The second merge appended a fresh BasicBlock id (a kind with a constant)
\* while self's counter for BasicBlock was already past the constant: the id
\* 1 of other became 1 + (2 - 1) = 2.
C4_Witness ==
    /\ Len(merged) = 2
    /\ pre.counters.basicblocks = 2
    /\ \E i \in 1..Len(other.relations.statements) :
           /\ other.relations.statements[i][2] = 1
           /\ corpus.relations.statements[Base("statements") + i][2] = 2

\* C5: after self.merge(other) self's counter of every kind k is its value
\* before the merge plus other's counter for k minus num_constants(k).
C5_MergeAdvancesCounters ==
    Len(merged) > 0 =>
        \A id \in IncrementalIds :
            corpus.counters[id] = pre.counters[id] + (other.counters[id] - constant_count[id])

\* The second merge found self and other both with fresh ids issued, of the
\* kind with a constant.
C5_Witness ==
    /\ Len(merged) = 2
    /\ pre.counters.basicblocks > constant_count.basicblocks
    /\ other.counters.basicblocks > constant_count.basicblocks + 1
    /\ corpus.counters.basicblocks = pre.counters.basicblocks + other.counters.basicblocks - 1

\* C6: reserved constants are fixed points of merge. The constant getter
\* returns the declared value on the corpus before and after every merge and
\* on every unit, and a column value of other inside [0, num_constants) is
\* appended unchanged.
C6_ConstantsFixedByMerge ==
    /\ get_no_block(corpus) = NO_BLOCK
    /\ get_no_block(pre) = get_no_block(corpus)
    /\ \A u \in Units : get_no_block(units[u]) = get_no_block(corpus)
    /\ Len(merged) > 0 =>
           \A r \in RelationNames : \A i \in 1..Len(other.relations[r]) : \A c \in IncColumns[r] :
               LET v == other.relations[r][i][c[1]]
               IN Reserved(c[2], v) => corpus.relations[r][Base(r) + i][c[1]] = v

\* A fact holding NO_BLOCK was appended by a merge that shifted the fresh
\* BasicBlock ids by a non-zero offset.
C6_Witness ==
    /\ Len(merged) = 2
    /\ pre.counters.basicblocks > constant_count.basicblocks
    /\ \E r \in RelationNames : \E i \in 1..Len(other.relations[r]) : \E c \in IncColumns[r] :
           /\ c[2] = "basicblocks"
           /\ other.relations[r][i][c[1]] = get_no_block(other)
           /\ corpus.relations[r][Base(r) + i][c[1]] = NO_BLOCK

\* The facts of t with every interned key replaced by the value it denotes.
LogicalRelations(t) ==
    [basic_blocks |-> [i \in 1..Len(t.relations.basic_blocks) |->
                          LET f == t.relations.basic_blocks[i]
                          IN <<f[1], ResolveDefPath(t, f[2]), f[3]>>],
     statements   |-> [i \in 1..Len(t.relations.statements) |->
                          LET f == t.relations.statements[i]
                          IN <<f[1], f[2], ResolveName(t, f[3])>>]]

\* The values interned in t, keys resolved.
InternedValues(t) ==
    [strings   |-> Range(t.interning_tables.strings),
     names     |-> {ResolveName(t, kv[1]) : kv \in Range(IntoVec(t.interning_tables.names))},
     def_paths |-> {ResolveDefPath(t, kv[1]) :
                       kv \in Range(IntoVec(t.interning_tables.def_paths))}]

LogicalView(t) ==
    [relations |-> LogicalRelations(t), values |-> InternedValues(t), counters |-> t.counters]

\* C7: merging a Tables built by registration calls into an empty default
\* self yields the logical fact set of other: the same tuples in the same
\* order once keys are resolved, the same interned values, the same counters.
C7_MergeIntoEmptyIsOther ==
    (Len(merged) > 0 /\ pre = DefaultTables) => LogicalView(corpus) = LogicalView(other)

\* A unit with a fact in each relation has been merged into the empty corpus.
C7_Witness ==
    /\ Len(merged) > 0
    /\ pre = DefaultTables
    /\ other.relations.basic_blocks # <<>>
    /\ other.relations.statements # <<>>
    /\ Len(corpus.relations.statements) = Len(other.relations.statements)

\* Number of times x occurs in the sequence s.
Count(s, x) == Cardinality({i \in 1..Len(s) : s[i] = x})
SameBag(s1, s2) ==
    /\ Len(s1) = Len(s2)
    /\ \A x \in Range(s1) \cup Range(s2) : Count(s1, x) = Count(s2, x)

\* The non-reserved ids of a kind issued in t.
FreshIds(t, id) == constant_count[id]..(t.counters[id] - 1)
Renumber(sigma, id, v) == IF Reserved(id, v) THEN v ELSE sigma[v]

\* The logical facts of t with the incremental ids renumbered.
Renumbered(t, bb, st) ==
    LET l == LogicalRelations(t)
    IN [basic_blocks |-> [i \in 1..Len(l.basic_blocks) |->
                             <<Renumber(bb, "basicblocks", l.basic_blocks[i][1]),
                               l.basic_blocks[i][2], l.basic_blocks[i][3]>>],
        statements   |-> [i \in 1..Len(l.statements) |->
                             <<Renumber(st, "statements", l.statements[i][1]),
                               Renumber(bb, "basicblocks", l.statements[i][2]),
                               l.statements[i][3]>>]]

\* The corpus had the two units been merged in the other order.
Swapped == merge(merge(DefaultTables, units[merged[2]]), units[merged[1]])

\* C8: merging A then B and merging B then A into an empty corpus give the
\* same fact set up to the values of keys and ids: the same counters, the
\* same interned values, and, under a renumbering of the fresh ids of each
\* kind, the same multiset of logical facts in every relation.
C8_MergeOrderIrrelevant ==
    Len(merged) = 2 =>
        LET swapped == Swapped
            facts   == LogicalRelations(swapped)
        IN /\ corpus.counters = swapped.counters
           /\ InternedValues(corpus) = InternedValues(swapped)
           /\ \E bb \in Permutations(FreshIds(corpus, "basicblocks")),
                 st \in Permutations(FreshIds(corpus, "statements")) :
                  LET renumbered == Renumbered(corpus, bb, st)
                  IN \A r \in RelationNames : SameBag(renumbered[r], facts[r])

\* Both units are merged, both brought facts, and the two orders disagree on
\* the concrete tables or relations.
C8_Witness ==
    /\ Len(merged) = 2
    /\ \A u \in Units : units[u].relations.statements # <<>>
    /\ corpus.interning_tables # Swapped.interning_tables
    /\ corpus.relations # Swapped.relations

\* C9: iterating a relation yields the tuples registered, in the order of the
\* calls and as often as they were registered; its length is the number of
\* registration calls.
C9_RelationKeepsInsertions ==
    \A u \in Units :
        /\ units[u].relations.basic_blocks = calls[u].basic_blocks
        /\ Len(units[u].relations.statements) = Len(calls[u].statements)
        /\ \A i \in 1..Len(calls[u].statements) :
               LET f == units[u].relations.statements[i]
               IN <<f[1], f[2], ResolveName(units[u], f[3])>> = calls[u].statements[i]

\* A unit in which one tuple was registered twice and is there twice.
C9_Witness ==
    \E u \in Units :
        /\ Len(calls[u].basic_blocks) = 2
        /\ calls[u].basic_blocks[1] = calls[u].basic_blocks[2]
        /\ Len(units[u].relations.basic_blocks) = 2

\* Values an interning table of the schema can be asked to intern.
KeyRange == 0..(Cardinality(Strings) - 1)
ValueDomain ==
    [strings |-> Strings, names |-> KeyRange, def_paths |-> KeyRange \X CrateHashes]
TableNames == Range(SchemaTables)
AllTables == {corpus} \cup {units[u] : u \in Units}

\* C2: in every interning table reached by registration calls and merges, two
\* stored values are equal iff their keys are, and interning v1 and then v2
\* returns the same key iff v1 = v2.
C2_InternIsContentAddressed ==
    \A t \in AllTables : \A n \in TableNames :
        LET c == t.interning_tables[n]
        IN /\ \A i, j \in 1..Len(c) : (c[i] = c[j]) <=> (IntoVec(c)[i][1] = IntoVec(c)[j][1])
           /\ \A v1 \in ValueDomain[n] :
                  LET first == intern(c, v1)
                  IN \A v2 \in ValueDomain[n] :
                         (first.key = intern(first.table, v2).key) <=> (v1 = v2)

\* The corpus holds several strings after a merge that interned one string it
\* already had and one it had not.
C2_Witness ==
    /\ Len(merged) = 2
    /\ Len(corpus.interning_tables.strings) > Len(pre.interning_tables.strings)
    /\ \E s \in Range(other.interning_tables.strings) : s \in Range(pre.interning_tables.strings)

\* Positions of the log at which a value is interned for the first time.
FirstSeen == {i \in 1..Len(log) : \A j \in 1..(i - 1) : log[j][1] # log[i][1]}
\* Rank of a first-seen position among the first-seen positions, from 0.
Rank(i) == Cardinality({j \in FirstSeen : j < i})
\* The position at which the value of call i was first seen.
FirstOf(i) == CHOOSE j \in FirstSeen : log[j][1] = log[i][1]

\* C10: the keys of an interning table are exactly 0 .. length-1, they are
\* assigned in first-seen order of the values, and an intern call grows the
\* table by one for a new value and not at all for a present one.
C10_DenseFirstSeenKeys ==
    /\ {kv[1] : kv \in Range(IntoVec(contents))} = 0..(Len(contents) - 1)
    /\ Len(contents) = Cardinality(FirstSeen)
    /\ \A i \in FirstSeen : contents[Rank(i) + 1] = log[i][1]
    /\ \A i \in 1..Len(log) : log[i][2] = Rank(FirstOf(i))
    /\ \A value \in Strings :
           Len(intern(contents, value).table)
               = Len(contents) + (IF value \in Range(contents) THEN 0 ELSE 1)

\* A table with two keys on which a value seen before was interned again
\* after a newer one, and got its old key.
C10_Witness ==
    /\ Len(contents) = 2
    /\ Len(log) = 3
    /\ log[3][1] = log[1][1]
    /\ log[3][2] = 0
    /\ log[2][2] = 1

\* C11: for every incremental id kind the counter of a default Tables is the
\* number of constants, and every fresh-id call returns the counter and then
\* increments it by 1: the i-th id issued is num_constants + i - 1, so the ids
\* issued on one Tables are strictly increasing, pairwise distinct and never
\* inside the reserved range 0..num_constants-1.
C11_FreshIdsIncrease ==
    \A id \in IncrementalIds :
        /\ DefaultTables.counters[id] = constant_count[id]
        /\ \A u \in Units :
               LET issued == fresh[u][id]
               IN /\ units[u].counters[id] = constant_count[id] + Len(issued)
                  /\ \A i \in 1..Len(issued) :
                         /\ issued[i] = constant_count[id] + i - 1
                         /\ ~Reserved(id, issued[i])
                         /\ \A j \in 1..Len(issued) :
                                /\ i < j => issued[i] < issued[j]
                                /\ i # j => issued[i] # issued[j]

\* A unit that issued three ids of the kind that has a reserved constant.
C11_Witness ==
    \E u \in Units :
        /\ fresh[u].basicblocks = <<1, 2, 3>>
        /\ units[u].counters.basicblocks = 4

\* C12: registering a fact twice with equal arguments that include an interned
\* value puts the same interning key into both facts and appends two separate
\* facts; a further call with the arguments of an earlier call leaves the
\* interning tables as they are.
C12_RegistrationInternsOnce ==
    \A u \in Units :
        LET made  == calls[u].statements
            facts == units[u].relations.statements
        IN \A i \in 1..Len(made) :
               LET again == register_statements(units[u], made[i][2], made[i][3])
               IN /\ again.tables.interning_tables = units[u].interning_tables
                  /\ Len(again.tables.relations.statements) = Len(facts) + 1
                  /\ again.tables.relations.statements[Len(facts) + 1][3] = facts[i][3]
                  /\ \A j \in 1..Len(made) :
                         (i < j /\ made[i][2] = made[j][2] /\ made[i][3] = made[j][3])
                             => /\ Len(facts) >= j
                                /\ facts[i][3] = facts[j][3]
                                /\ facts[i][1] # facts[j][1]

\* A unit in which one statement was registered twice with equal arguments:
\* one entry in strings and names, two facts.
C12_Witness ==
    \E u \in Units :
        /\ Len(calls[u].statements) = 2
        /\ calls[u].statements[1][2] = calls[u].statements[2][2]
        /\ calls[u].statements[1][3] = calls[u].statements[2][3]
        /\ Len(units[u].interning_tables.names) = 1
        /\ Len(units[u].relations.statements) = 2

\* Some fact of t holds a non-reserved id that, shifted by the offset Tables::merge
\* computes from self, exceeds the maximum of the backing type.
ShiftPastMax(self, t) ==
    \E r \in RelationNames : \E i \in 1..Len(t.relations[r]) : \E c \in IncColumns[r] :
        /\ ~Reserved(c[2], t.relations[r][i][c[1]])
        /\ t.relations[r][i][c[1]] + shift_offset(self, c[2]) > TypMax

\* C19: a shift whose sum exceeds the maximum of the backing type aborts with
\* "Overflow!"; a shift that returns, returns the exact sum value + offset,
\* never a wrapped-around one.
C19_ShiftOverflowAborts ==
    op = "merge" =>
        /\ ShiftPastMax(pre, other) => (aborted = "Overflow!" /\ corpus = pre)
        /\ aborted = "Overflow!" => ShiftPastMax(pre, other)
        /\ aborted = "none" =>
               \A r \in RelationNames : \A i \in 1..Len(other.relations[r]) :
                   \A c \in IncColumns[r] :
                       LET v == other.relations[r][i][c[1]]
                           w == corpus.relations[r][Len(pre.relations[r]) + i][c[1]]
                       IN ~Reserved(c[2], v) =>
                              /\ w = v + shift_offset(pre, c[2])
                              /\ w <= TypMax

\* A merge that shifted the id 1 by 254 and aborted.
C19_Witness ==
    /\ op = "merge"
    /\ aborted = "Overflow!"
    /\ pre.counters.basicblocks = TypMax
    /\ other.relations.basic_blocks[1][1] = 1

\* C20: an incremental id counter never wraps silently: no fresh-id call and
\* no counter advance of a merge leaves a counter below the value it had
\* before the operation.
C20_CounterNeverWraps ==
    \A id \in IncrementalIds : corpus.counters[id] >= pre.counters[id]

\* C17: a Tables that was saved and is loaded back from the same place is the
\* Tables that was saved, empty or populated, in the single-file layout with
\* either extension and in the multi-file layout.
C17_SaveLoadRoundTrip ==
    (loaded.function # "none" /\ loaded.expected # <<>>) =>
        /\ loaded.result.ok
        /\ loaded.result.value = loaded.expected[1]

\* A populated Tables read back from the json file after the bincode file
\* and the multi-file layout were written as well.
C17_Witness ==
    /\ loaded.function = "load_single_file"
    /\ loaded.path.ext = "json"
    /\ loaded.expected # <<>>
    /\ loaded.result.ok
    /\ Len(loaded.result.value.relations.statements) = 3
    /\ Len(loaded.result.value.interning_tables.def_paths) = 2
    /\ \A place \in SavePlaces : saved[place] # <<>>

\* C18 as claimed: loading the single-file form from a file that does not
\* exist gives a default Tables and no error.
C18_MissingFileLoadsEmpty ==
    (loaded.function \in {"load", "load_single_file"} /\ loaded.expected = <<>>) =>
        /\ loaded.result.ok
        /\ loaded.result.value = DefaultTables

\* C18 as the code has it: Tables::load and load_single_file of a file that
\* does not exist return the error OpenFileError with the path; only
\* load_or_default answers a missing file with a default Tables.
C18_MissingFileIsOpenError ==
    loaded.expected = <<>> =>
        /\ loaded.function \in {"load", "load_single_file", "load_multifile"} =>
               /\ ~loaded.result.ok
               /\ loaded.result.error = "OpenFileError"
               /\ loaded.function # "load_multifile" => loaded.result.path = loaded.path
        /\ loaded.function = "load_or_default" =>
               /\ loaded.result.ok
               /\ loaded.result.value = DefaultTables
               /\ \A id \in IncrementalIds :
                      loaded.result.value.counters[id] = constant_count[id]

\* load_single_file was called on a file that does not exist.
C18_Witness ==
    /\ loaded.function = "load_single_file"
    /\ loaded.expected = <<>>
    /\ ~fs[loaded.path].exists
    /\ loaded.result.error = "OpenFileError"

\* ----------------------------------------------------- the store manager
\* The list of loaded crates as it is on disk.
ListOnDisk == load(VecTy(PathBufTy), LoadedCratesPath, fs)
\* The corpus as it is on disk.
CorpusOnDisk == load_multifile_or_default(DatabaseRoot, fs)
\* A crate was merged by the process that is running.
MergedInThisRun == pc # "down" /\ loaded_crates # run.was

\* C13 (as stated): in a run of update_database the list of loaded crates is
\* deleted before the first unit is merged, and it is rewritten only after the
\* merge pass and the write of the corpus have both succeeded.
C13_ManifestDeletedBeforeMerge ==
    /\ MergedInThisRun => ~fs[LoadedCratesPath].exists
    /\ pc = "write" => (crates = <<>> /\ CorpusOnDisk = Ok(corpus))
    /\ (pc # "down" /\ fs[LoadedCratesPath].exists) => pc \in {"loop", "remove"}

\* C13 (amended): the merge pass changes the in-memory corpus only and leaves
\* the list of loaded crates on disk as the process found it; the list is
\* deleted after the merge pass and before the corpus is written, and it is
\* rewritten only after the merge pass and the write of the corpus have both
\* succeeded.
C13_ManifestDeletedAfterMerge ==
    /\ pc \in {"loop", "remove"} =>
           /\ ListState(fs) = run.list
           /\ run.list = "ok" => Range(ListOnDisk.value) = run.was
    /\ pc = "store" => (~fs[LoadedCratesPath].exists /\ crates = <<>>)
    /\ pc = "write" =>
           /\ ~fs[LoadedCratesPath].exists
           /\ crates = <<>>
           /\ CorpusOnDisk = Ok(corpus)
    /\ (pc = "down" /\ run.ended = "finished") =>
           /\ ListOnDisk.ok
           /\ Range(ListOnDisk.value) = loaded_crates
           /\ CorpusOnDisk = Ok(corpus)

\* A second run has merged a unit while the list of the first run was still
\* on disk, and has come to the point of rewriting it.
C13_Witness ==
    /\ pc = "write"
    /\ run.existed
    /\ run.was # {}
    /\ loaded_crates # run.was

\* The corpus that merging the unit stores at `paths` into `base` gives, in
\* the order of `paths`.
RECURSIVE MergeSeq(_, _)
MergeSeq(base, paths) ==
    IF paths = <<>> THEN base
    ELSE MergeSeq(merge(base, tables_load(Head(paths), fs).value), Tail(paths))

\* The corpus on disk holds the facts of exactly the units in `listed`.
CorpusIsOf(listed) ==
    /\ CorpusOnDisk.ok
    /\ \E order \in Perms(listed) : CorpusOnDisk.value = MergeSeq(DefaultTables, order)

\* C14: after a crash at any step of update_database, a list of loaded crates
\* that is present and readable lists exactly the units whose facts the corpus
\* on disk holds.
C14_CrashLeavesNoFalseManifest ==
    (pc = "down" /\ run.ended = "crashed" /\ ListOnDisk.ok) =>
        /\ \A path \in Range(ListOnDisk.value) : tables_load(path, fs).ok
        /\ CorpusIsOf(Range(ListOnDisk.value))

\* A second run crashed in its merge pass after it had merged a new unit in
\* memory; the list of the first run is still on disk.
C14_Witness ==
    /\ pc = "down"
    /\ run.ended = "crashed"
    /\ run.at = "loop"
    /\ ListOnDisk.ok
    /\ Range(ListOnDisk.value) # {}
    /\ loaded_crates # run.was
    /\ CorpusOnDisk.value # corpus

\* The last start found the corpus directory without a list of loaded crates
\* that can be read.
StartedWithoutList == run.result # "none" /\ run.existed /\ run.list # "ok"

\* C15 (as stated): a manager that starts on an existing corpus directory
\* whose list of loaded crates is absent rebuilds from the corpus and goes on,
\* so that an update run can complete.
C15_AbsentManifestRebuilds ==
    (StartedWithoutList /\ run.list = "missing") => run.result = "ok"

\* C15 (amended): a manager that starts on an existing corpus directory whose
\* list of loaded crates is absent or not valid JSON panics ("The database
\* state is corrupted") before it loads the corpus; nothing is rebuilt or
\* rewritten, so every later start fails in the same way.
C15_AbsentManifestIsFatal ==
    StartedWithoutList =>
        /\ run.result = "The database state is corrupted."
        /\ run.ended = "crashed"
        /\ pc = "down"
        /\ ListState(fs) = run.list
        /\ new(fs).panic = run.result

\* A run crashed between the removal of the list and its rewrite, with the
\* corpus of a unit on disk; the next start fails.
C15_Witness ==
    /\ StartedWithoutList
    /\ run.list = "missing"
    /\ run.result = "The database state is corrupted."
    /\ CorpusOnDisk.ok
    /\ Len(CorpusOnDisk.value.relations.statements) > 0

\* The scanned paths the loop has gone through, and those of them that were
\* not loaded before this run.
Processed == SubSeq(scanned, 1, Len(scanned) - Len(crates))
ProcessedNew ==
    LET fresh_path(path) == path \notin run.was IN SelectSeq(Processed, fresh_path)
Loadable(path) == tables_load(path, fs).ok
ProcessedLoadable == SelectSeq(ProcessedNew, Loadable)
ProcessedFailing ==
    LET failing(path) == ~Loadable(path) IN SelectSeq(ProcessedNew, failing)

\* C16: a per-unit store that cannot be opened or decoded gives an error value
\* that names its path; the unit is neither merged nor recorded as loaded, the
\* in-memory corpus is as if the unit had not been there, and the loop goes
\* through every other scanned unit.
C16_FailedUnitIsSkipped ==
    pc # "down" =>
        /\ Len(errors) = Len(ProcessedFailing)
        /\ \A i \in 1..Len(errors) :
               /\ ~errors[i].ok
               /\ errors[i].path = ProcessedFailing[i]
               /\ errors[i].error =
                      IF fs[ProcessedFailing[i]].readable THEN "InvalidBincode"
                      ELSE "OpenFileError"
        /\ loaded_crates = run.was \cup Range(ProcessedLoadable)
        /\ pc \in {"loop", "remove"} =>
               corpus = MergeSeq(CorpusOnDisk.value, ProcessedLoadable)
        /\ pc # "loop" => crates = <<>>

\* The first scanned store did not decode, the second one was merged after it.
C16_Witness ==
    /\ pc = "remove"
    /\ Len(scanned) = 2
    /\ Len(errors) = 1
    /\ errors[1].error = "InvalidBincode"
    /\ errors[1].path = scanned[1]
    /\ loaded_crates = {scanned[2]}
    /\ corpus # DefaultTables

\* ------------------------------------------------- merge, interning tables
\* The HashMaps old key -> new key the last merge built.
LastMaps == merge_interning(pre, other)
\* The keys of an interning table.
Keys(table) == {kv[1] : kv \in Range(IntoVec(table))}

\* C24: merge maps every key of other's tuple table def_paths to the key self
\* has for the tuple with the Name column sent through the names map and the
\* CrateHash column copied; a tuple of other that denotes the values of a
\* tuple self held collapses onto that key, and tuples that denote different
\* values get different keys.
C24_TupleTablesAreRemapped ==
    Len(merged) > 0 =>
        LET map  == LastMaps.def_paths
            from == other.interning_tables.def_paths
            to   == corpus.interning_tables.def_paths
        IN /\ DOMAIN map = Keys(from)
           /\ \A k \in Keys(from) :
                  /\ map[k] \in Keys(to)
                  /\ lookup(to, map[k])
                         = <<LastMaps.names[lookup(from, k)[1]], lookup(from, k)[2]>>
                  /\ lookup(to, map[k])[2] = lookup(from, k)[2]
                  /\ ResolveDefPath(corpus, map[k]) = ResolveDefPath(other, k)
                  /\ \A j \in Keys(pre.interning_tables.def_paths) :
                         (ResolveDefPath(pre, j) = ResolveDefPath(other, k)) <=> (map[k] = j)
                  /\ \A k2 \in Keys(from) :
                         (ResolveDefPath(other, k2) # ResolveDefPath(other, k))
                             => map[k2] # map[k]

\* The second unit had two tuples with the crate hash h2: one collapsed onto a
\* key the corpus had, at another position than in the unit, the other one
\* got a new key.
C24_Witness ==
    /\ Len(merged) = 2
    /\ \E k \in Keys(other.interning_tables.def_paths) :
           /\ LastMaps.def_paths[k] # k
           /\ LastMaps.def_paths[k] \in Keys(pre.interning_tables.def_paths)
           /\ lookup(other.interning_tables.def_paths, k)[2] = "h2"
    /\ \E k \in Keys(other.interning_tables.def_paths) :
           LastMaps.def_paths[k] \notin Keys(pre.interning_tables.def_paths)

\* ------------------------------------------------------- merge, relations
\* The id of other that the last merge turned into `value`.
Unshifted(id, value) ==
    IF Reserved(id, value) THEN value
    ELSE value - (pre.counters[id] - constant_count[id])
\* The facts the last merge appended to corpus, keys resolved in corpus and
\* incremental ids taken back to the ids of other.
AppendedLogical ==
    LET l == LogicalRelations(corpus)
    IN [basic_blocks |-> [i \in 1..(Len(l.basic_blocks) - Base("basic_blocks")) |->
                             LET f == l.basic_blocks[Base("basic_blocks") + i]
                             IN <<Unshifted("basicblocks", f[1]), f[2], f[3]>>],
        statements   |-> [i \in 1..(Len(l.statements) - Base("statements")) |->
                             LET f == l.statements[Base("statements") + i]
                             IN <<Unshifted("statements", f[1]),
                                  Unshifted("basicblocks", f[2]), f[3]>>]]

\* C25: after self.merge(other) every relation of self is what it was before
\* the merge, followed by one tuple per tuple of other in other's order; its
\* length is the sum of the two lengths, and a column that is no id (the
\* enum column kind of basic_blocks) is appended as other had it.
C25_MergeAppendsRelations ==
    Len(merged) > 0 =>
        /\ \A r \in RelationNames :
               /\ Len(corpus.relations[r]) = Len(pre.relations[r]) + Len(other.relations[r])
               /\ SubSeq(corpus.relations[r], 1, Len(pre.relations[r])) = pre.relations[r]
        /\ AppendedLogical = LogicalRelations(other)
        /\ \A i \in 1..Len(other.relations.basic_blocks) :
               corpus.relations.basic_blocks[Base("basic_blocks") + i][3]
                   = other.relations.basic_blocks[i][3]

\* The corpus held a statement when a unit with two statements of different
\* names was merged.
C25_Witness ==
    /\ Len(merged) = 2
    /\ Len(pre.relations.statements) = 1
    /\ Len(other.relations.statements) = 2
    /\ other.relations.statements[1][3] # other.relations.statements[2][3]
    /\ Len(corpus.relations.statements) = 3

\* ------------------------------------------------------- repeated merges
\* The last two merges were of the same store.
MergedTwice == Len(merged) >= 2 /\ merged[Len(merged)] = merged[Len(merged) - 1]
\* The number of fresh ids of a kind that other has issued.
IssuedBy(t, id) == t.counters[id] - constant_count[id]
\* Where the copy of other's facts made by the merge before the last one
\* starts in a relation of corpus.
FirstCopy(r) == Base(r) - Len(other.relations[r])

\* C27: a second merge of the same other leaves every interning table of
\* self as it is, appends every fact of other once more, the incremental ids
\* outside the reserved range larger than in the first copy by the number of
\* fresh ids other issued, and advances every counter by that number again;
\* so it changes self whenever other holds a fact or has issued an id.
C27_SecondMergeAppendsAgain ==
    MergedTwice =>
        /\ corpus.interning_tables = pre.interning_tables
        /\ \A id \in IncrementalIds :
               corpus.counters[id] = pre.counters[id] + IssuedBy(other, id)
        /\ \A r \in RelationNames :
               /\ Len(corpus.relations[r]) = Len(pre.relations[r]) + Len(other.relations[r])
               /\ SubSeq(corpus.relations[r], 1, Base(r)) = pre.relations[r]
               /\ \A i \in 1..Len(other.relations[r]) : \A c \in 1..3 :
                      LET first  == corpus.relations[r][FirstCopy(r) + i][c]
                          second == corpus.relations[r][Base(r) + i][c]
                      IN IF \E ic \in IncColumns[r] :
                                ic[1] = c /\ ~Reserved(ic[2], other.relations[r][i][c])
                         THEN \E ic \in IncColumns[r] :
                                  ic[1] = c /\ second = first + IssuedBy(other, ic[2])
                         ELSE second = first
        /\ ((\E r \in RelationNames : other.relations[r] # <<>>)
              \/ (\E id \in IncrementalIds : IssuedBy(other, id) > 0))
               => corpus # pre

\* A store with a basic block and two statements was merged twice into a
\* corpus that held the facts of the other unit.
C27_Witness ==
    /\ Len(merged) = 3
    /\ merged[1] # merged[2]
    /\ MergedTwice
    /\ Len(other.relations.statements) = 2
    /\ Len(other.relations.basic_blocks) = 1
    /\ Len(corpus.relations.statements) > 4
    /\ corpus.counters.statements > pre.counters.statements

\* ------------------------------------------------------ invariants of Tables
\* Every interned id stored in t is a key of the table it refers to.
KeysAreValid(t) ==
    /\ \A v \in Range(t.interning_tables.names) : v \in Keys(t.interning_tables.strings)
    /\ \A v \in Range(t.interning_tables.def_paths) : v[1] \in Keys(t.interning_tables.names)
    /\ \A f \in Range(t.relations.basic_blocks) : f[2] \in Keys(t.interning_tables.def_paths)
    /\ \A f \in Range(t.relations.statements) : f[3] \in Keys(t.interning_tables.names)

\* C28: referential integrity. After any sequence of registration calls and
\* merges, every interned id stored in a relation column or in a value of an
\* interning table, of a unit or of the corpus, is a key of the table it
\* refers to (registration calls are handed DefPath keys the same Tables
\* returned).
C28_ReferentialIntegrity ==
    /\ KeysAreValid(corpus)
    /\ \A u \in Units : KeysAreValid(units[u])

\* Two units are merged; the corpus holds a statement, a basic block with its
\* def path, and two names, one of them under another key than in its unit.
C28_Witness ==
    /\ Len(merged) = 2
    /\ corpus.relations.statements # <<>>
    /\ corpus.relations.basic_blocks # <<>>
    /\ Len(corpus.interning_tables.names) = 2
    /\ \E k \in Keys(other.interning_tables.names) : LastMaps.names[k] # k

\* The incremental ids of a kind stored in the relations of t.
StoredIds(t, id) ==
    UNION {UNION {{t.relations[r][i][c[1]] : i \in 1..Len(t.relations[r])} :
                     c \in {ic \in IncColumns[r] : ic[2] = id}} :
              r \in RelationNames}
\* Every stored incremental id of t is a reserved constant or below the
\* counter of its kind.
IdsBelowCounter(t) ==
    \A id \in IncrementalIds : \A value \in StoredIds(t, id) :
        Reserved(id, value) \/ value < t.counters[id]

\* C29: counter upper bound. After any sequence of fresh-id calls,
\* registrations and merges, every incremental id stored in the relations of
\* a Tables is a reserved constant or strictly below the counter of its kind,
\* so the id the next fresh-id call returns is not stored yet.
C29_IdsBelowCounter ==
    /\ IdsBelowCounter(corpus)
    /\ \A u \in Units : IdsBelowCounter(units[u])
    /\ \A id \in IncrementalIds : get_fresh(corpus, id).ret \notin StoredIds(corpus, id)

\* C30: merge does not change what a key of self means. Every interning table
\* of self after the merge starts with the table from before the merge, so a
\* key self held denotes the same value and the interned columns of the facts
\* self held resolve as before; new values sit at keys from the old length on.
C30_MergeKeepsExistingKeys ==
    Len(merged) > 0 =>
        /\ \A name \in Range(SchemaTables) :
               LET before == pre.interning_tables[name]
                   after_ == corpus.interning_tables[name]
               IN /\ Len(after_) >= Len(before)
                  /\ \A k \in Keys(before) : lookup(after_, k) = lookup(before, k)
        /\ \A k \in Keys(pre.interning_tables.names) :
               ResolveName(corpus, k) = ResolveName(pre, k)
        /\ \A k \in Keys(pre.interning_tables.def_paths) :
               ResolveDefPath(corpus, k) = ResolveDefPath(pre, k)
        /\ \A i \in 1..Len(pre.relations.statements) :
               ResolveName(corpus, corpus.relations.statements[i][3])
                   = ResolveName(pre, pre.relations.statements[i][3])
        /\ \A i \in 1..Len(pre.relations.basic_blocks) :
               ResolveDefPath(corpus, corpus.relations.basic_blocks[i][2])
                   = ResolveDefPath(pre, pre.relations.basic_blocks[i][2])

\* The corpus held a statement with its name when a unit was merged that
\* brought one name the corpus had and one it did not have.
C30_Witness ==
    /\ Len(merged) = 2
    /\ pre.relations.statements # <<>>
    /\ Len(corpus.interning_tables.names) > Len(pre.interning_tables.names)
    /\ \E k \in Keys(other.interning_tables.names) :
           LastMaps.names[k] \in Keys(pre.interning_tables.names)

\* ------------------------------------------------- completed update runs
\* The last manager process ran update_database to its end.
RunCompleted == pc = "down" /\ run.ended = "finished"

\* C26: after every completed run of update_database the rewritten list of
\* loaded crates holds the crates listed before the run and every scanned
\* store that loads, and the corpus on disk is the merge of the listed stores,
\* each of them once: a listed store is passed over in later runs.
C26_EachUnitMergedOnce ==
    RunCompleted =>
        /\ ListOnDisk.ok
        /\ Range(ListOnDisk.value) = run.was \cup {path \in Range(scanned) : Loadable(path)}
        /\ CorpusIsOf(Range(ListOnDisk.value))
        /\ \A r \in RelationNames :
               Len(CorpusOnDisk.value.relations[r])
                   = Len(MergeSeq(DefaultTables,
                                  CHOOSE order \in Perms(Range(ListOnDisk.value)) : TRUE)
                             .relations[r])

\* A second run has completed: it found both stores, passed over the one the
\* first run had merged and merged the other one.
C26_Witness ==
    /\ RunCompleted
    /\ run.existed
    /\ Cardinality(run.was) = 1
    /\ Len(scanned) = 2
    /\ Cardinality(loaded_crates) = 2
    /\ Len(CorpusOnDisk.value.relations.statements) = 3

\* ------------------------------------------------------ keys and indices
\* C22: the conversion between a key and its table index is lossless. Every
\* index of the table converted to the key type and back is the index, every
\* key intern returned looks up the value it was returned for, and intern
\* calls with different values returned different keys, whatever the size of
\* the table.
C22_KeyConversionLossless ==
    /\ \A i \in 1..Len(contents) : index(FromUsize(i - 1)) = i - 1
    /\ \A i \in 1..Len(log) : lookup(contents, log[i][2]) = log[i][1]
    /\ \A i, j \in 1..Len(log) : log[i][1] # log[j][1] => log[i][2] # log[j][2]

\* ------------------------------------------------ merge, dependency order
\* The schema declares names, whose values are keys of strings, before
\* strings: when the names of other are re-interned no map of strings exists.
DependencyViolated == Position("names") < Position("strings")

\* C21: a merge that is to re-intern a value holding a key of a table that is
\* not remapped yet fails with an assertion and leaves self alone; no value is
\* re-interned with the key other had.
C21_DependencyViolationAborts ==
    (Len(merged) > 0 /\ other.interning_tables.names # <<>>) =>
        /\ DependencyViolated => (aborted # "none" /\ corpus = pre)
        /\ aborted = "none" =>
               \A k \in Keys(other.interning_tables.names) :
                   lookup(corpus.interning_tables.names, LastMaps.names[k])
                       = LastMaps.strings[lookup(other.interning_tables.names, k)]

\* C23: in whatever order the schema declares the interning tables, the
\* values of names are sent through the map of strings, and the Name column
\* of def_paths through the map of names, before they are re-interned: every
\* key of other is mapped to a key that denotes in self what it denoted in
\* other.
C23_MergeInDependencyOrder ==
    Len(merged) > 0 =>
        /\ \A k \in Keys(other.interning_tables.names) :
               ResolveName(corpus, LastMaps.names[k]) = ResolveName(other, k)
        /\ \A k \in Keys(other.interning_tables.def_paths) :
               ResolveDefPath(corpus, LastMaps.def_paths[k]) = ResolveDefPath(other, k)

====
